---- MODULE Spec2Model ----
(***************************************************************************)
(* Corrupt Watch: the complaints store (tables, row-level policies and the *)
(* tracking-code trigger of supabase/migrations), the Submit page creation *)
(* flow, the Verify page, the verify-tracking function and the government  *)
(* portal status update.                                                   *)
(***************************************************************************)
EXTENDS Integers, Sequences, FiniteSets, TLC

VARIABLES complaints, evidence_files, public_logs, gov_notes, storage, auth_users, tx, flow, resp,
          page, feed

vars == <<complaints, evidence_files, public_logs, gov_notes, storage, auth_users, tx, flow,
          resp, page, feed>>

(***************************************************************************)
(* Bounds                                                                  *)
(***************************************************************************)
MaxComplaints == 2
MaxFiles == 2
MaxContent == 4

(***************************************************************************)
(* Values                                                                  *)
(***************************************************************************)
Null == "null"
NullCode == <<>>

Clients == {"c1", "c2"}
Users == {"u1", "u2", "g1", "a1"}
Callers == Users \cup {Null}

app_role == {"citizen", "government", "admin"}

complaint_status == {"pending", "in_review", "verified", "resolved", "rejected"}

user_roles == {<<"u1", "citizen">>, <<"u2", "citizen">>,
               <<"g1", "citizen">>, <<"g1", "government">>,
               <<"a1", "citizen">>, <<"a1", "admin">>}

\* user_roles.user_id REFERENCES auth.users ON DELETE CASCADE
has_role(_user_id, _role) == _user_id \in auth_users /\ <<_user_id, _role>> \in user_roles

PgRole(uid) == IF uid = Null THEN "anon" ELSE "authenticated"

(***************************************************************************)
(* Text: a string is a sequence of one-character strings                   *)
(***************************************************************************)
Digits == {"0", "1", "2", "3", "4", "5", "6", "7", "8", "9"}
LowerAZ == {"a", "b", "c", "d", "e", "f", "g", "h", "i", "j", "k", "l", "m",
            "n", "o", "p", "q", "r", "s", "t", "u", "v", "w", "x", "y", "z"}
UpperAZ == {"A", "B", "C", "D", "E", "F", "G", "H", "I", "J", "K", "L", "M",
            "N", "O", "P", "Q", "R", "S", "T", "U", "V", "W", "X", "Y", "Z"}

UpperOf == [ch \in LowerAZ |->
              CASE ch = "a" -> "A" [] ch = "b" -> "B" [] ch = "c" -> "C"
                [] ch = "d" -> "D" [] ch = "e" -> "E" [] ch = "f" -> "F"
                [] ch = "g" -> "G" [] ch = "h" -> "H" [] ch = "i" -> "I"
                [] ch = "j" -> "J" [] ch = "k" -> "K" [] ch = "l" -> "L"
                [] ch = "m" -> "M" [] ch = "n" -> "N" [] ch = "o" -> "O"
                [] ch = "p" -> "P" [] ch = "q" -> "Q" [] ch = "r" -> "R"
                [] ch = "s" -> "S" [] ch = "t" -> "T" [] ch = "u" -> "U"
                [] ch = "v" -> "V" [] ch = "w" -> "W" [] ch = "x" -> "X"
                [] ch = "y" -> "Y" [] ch = "z" -> "Z"]

upper(s) == [i \in 1..Len(s) |-> IF s[i] \in LowerAZ THEN UpperOf[s[i]] ELSE s[i]]

substring(s, from, for) == SubSeq(s, from, from + for - 1)

\* md5(random()::text): 32 lowercase hexadecimal digits; the draws the model makes
Md5Draws == {<<"a", "7", "b", "9", "e", "1">>, <<"0", "0", "0", "0", "3", "c">>}

\* codes a caller of the data API may put in the tracking_code column itself
SuppliedCodes == {<<"c", "w", "-", "a", "7", "b", "9", "-", "0", "0", "0", "0">>}

(***************************************************************************)
(* Tables                                                                  *)
(***************************************************************************)
Columns == {"user_id", "is_anonymous", "status", "tracking_code", "evidence_hashes"}

\* column defaults of CREATE TABLE public.complaints and ADD COLUMN tracking_code
ColumnDefault == [user_id |-> Null, is_anonymous |-> FALSE, status |-> "pending",
                  tracking_code |-> NullCode, evidence_hashes |-> <<>>]

ApplyDefaults(payload) ==
  [col \in Columns |-> IF col \in DOMAIN payload THEN payload[col] ELSE ColumnDefault[col]]

ApplyPatch(row, patch) ==
  [col \in DOMAIN row |-> IF col \in DOMAIN patch THEN patch[col] ELSE row[col]]

WithId(row, id) ==
  [col \in Columns \cup {"id"} |-> IF col = "id" THEN id ELSE row[col]]

NoComplaint == WithId(ColumnDefault, 0)

NoRow == [id |-> 0]

Ids == 1..Len(complaints)

Elevated(uid) == has_role(uid, "government") \/ has_role(uid, "admin")

(***************************************************************************)
(* Row-level policies (permissive: a command passes when any policy of the *)
(* caller's role passes)                                                   *)
(***************************************************************************)
UsersCanViewOwnComplaints(uid, row) ==
  PgRole(uid) = "authenticated" /\ uid = row.user_id

GovernmentCanViewAllComplaints(uid, row) ==
  PgRole(uid) = "authenticated" /\ Elevated(uid)

AnyoneCanViewComplaintsWithTrackingCode(uid, row) ==
  PgRole(uid) = "anon" /\ row.tracking_code # NullCode

AnyoneCanViewAllComplaints(uid, row) == TRUE

CanSelectComplaint(uid, row) ==
  \/ UsersCanViewOwnComplaints(uid, row)
  \/ GovernmentCanViewAllComplaints(uid, row)
  \/ AnyoneCanViewComplaintsWithTrackingCode(uid, row)
  \/ AnyoneCanViewAllComplaints(uid, row)

\* the insert policy without the comparison of user_id with the caller
UsersCanInsertComplaints_AnyOwner(uid, row) ==
  PgRole(uid) = "authenticated"

UsersCanInsertComplaints(uid, row) ==
  PgRole(uid) = "authenticated" /\ uid = row.user_id

AnyoneCanInsertAnonymousComplaints(uid, row) ==
  PgRole(uid) = "anon" /\ row.is_anonymous = TRUE /\ row.user_id = Null

CanInsertComplaint(uid, row) ==
  \/ UsersCanInsertComplaints(uid, row)
  \/ AnyoneCanInsertAnonymousComplaints(uid, row)
\* the update policy without the role test
GovernmentCanUpdateComplaints_AnyAuthenticated(uid, row) ==
  PgRole(uid) = "authenticated"

GovernmentCanUpdateComplaints(uid, row) ==
  PgRole(uid) = "authenticated" /\ Elevated(uid)

UsersCanInsertEvidence(uid, ef) ==
  /\ PgRole(uid) = "authenticated"
  /\ \E i \in Ids : /\ CanSelectComplaint(uid, complaints[i])
                    /\ complaints[i].id = ef.complaint_id
                    /\ complaints[i].user_id = uid

AnonymousUsersCanInsertEvidence(uid, ef) ==
  /\ PgRole(uid) = "anon"
  /\ \E i \in Ids : /\ CanSelectComplaint(uid, complaints[i])
                    /\ complaints[i].id = ef.complaint_id
                    /\ complaints[i].is_anonymous = TRUE

CanInsertEvidence(uid, ef) ==
  \/ UsersCanInsertEvidence(uid, ef)
  \/ AnonymousUsersCanInsertEvidence(uid, ef)

\* public_logs has row-level security enabled and only SELECT policies
CanInsertPublicLog(uid, log) == FALSE

CanUploadEvidence(uid) == PgRole(uid) \in {"authenticated", "anon"}

(***************************************************************************)
(* Tracking-code trigger                                                   *)
(***************************************************************************)
\* the candidate without upper()
TrackingCodeOf_NoUpper(r1, r2) ==
  <<"C", "W", "-">> \o substring(r1, 1, 4) \o <<"-">> \o substring(r2, 1, 4)

\* the candidate built by one iteration of the loop of generate_tracking_code
TrackingCodeOf(r1, r2) ==
  <<"C", "W", "-">> \o upper(substring(r1, 1, 4)) \o <<"-">> \o upper(substring(r2, 1, 4))

CodeExists(code) == \E i \in Ids : complaints[i].tracking_code = code

\* the condition of set_tracking_code under which a code is generated
NeedsTrackingCode(new) == new.is_anonymous = TRUE /\ new.tracking_code = NullCode

(***************************************************************************)
(* Commands of the data API                                                *)
(***************************************************************************)
\* tracking_code TEXT UNIQUE: unique among the non-null values
UniqueViolation(code, except) ==
  /\ code # NullCode
  /\ \E i \in Ids \ {except} : complaints[i].tracking_code = code

\* INSERT INTO complaints ... RETURNING *, after the BEFORE INSERT trigger has run
InsertComplaint(uid, new) ==
  IF ~CanInsertComplaint(uid, new)
    THEN [error |-> "42501", row |-> NoRow, table |-> complaints]
  ELSE IF new.user_id # Null /\ new.user_id \notin auth_users
    THEN [error |-> "23503", row |-> NoRow, table |-> complaints]
  ELSE IF UniqueViolation(new.tracking_code, 0)
    THEN [error |-> "23505", row |-> NoRow, table |-> complaints]
  ELSE LET row == WithId(new, Len(complaints) + 1)
       IN  [error |-> "", row |-> row, table |-> Append(complaints, row)]
\* the update with a text column in place of the complaint_status enum
UpdateComplaint_NoEnum(uid, id, patch) ==
  LET targets == {i \in Ids : /\ complaints[i].id = id
                              /\ CanSelectComplaint(uid, complaints[i])
                              /\ GovernmentCanUpdateComplaints(uid, complaints[i])}
  IN  IF targets = {}
        THEN [error |-> "", count |-> 0, table |-> complaints]
      ELSE LET i == CHOOSE j \in targets : TRUE
               new == ApplyPatch(complaints[i], patch)
           IN  IF UniqueViolation(new.tracking_code, i)
                 THEN [error |-> "23505", count |-> 0, table |-> complaints]
                 ELSE [error |-> "", count |-> 1,
                       table |-> [complaints EXCEPT ![i] = new]]

\* the stages of the lifecycle
StageOf == [st \in complaint_status |->
              CASE st = "pending" -> 1 [] st = "in_review" -> 2 [] st = "verified" -> 3
                [] OTHER -> 4]

\* the update with a guard that lets the status only move to a later stage
UpdateComplaint_ForwardOnly(uid, id, patch) ==
  LET targets == {i \in Ids : /\ complaints[i].id = id
                              /\ CanSelectComplaint(uid, complaints[i])
                              /\ GovernmentCanUpdateComplaints(uid, complaints[i])
                              /\ ("status" \in DOMAIN patch /\ patch.status \in complaint_status)
                                   => StageOf[patch.status] > StageOf[complaints[i].status]}
  IN  IF "status" \in DOMAIN patch /\ patch.status \notin complaint_status
        THEN [error |-> "22P02", count |-> 0, table |-> complaints]
      ELSE IF targets = {}
        THEN [error |-> "", count |-> 0, table |-> complaints]
      ELSE LET i == CHOOSE j \in targets : TRUE
               new == ApplyPatch(complaints[i], patch)
           IN  IF UniqueViolation(new.tracking_code, i)
                 THEN [error |-> "23505", count |-> 0, table |-> complaints]
                 ELSE [error |-> "", count |-> 1,
                       table |-> [complaints EXCEPT ![i] = new]]

\* UPDATE complaints SET patch WHERE id = id
UpdateComplaint(uid, id, patch) ==
  LET targets == {i \in Ids : /\ complaints[i].id = id
                              /\ CanSelectComplaint(uid, complaints[i])
                              /\ GovernmentCanUpdateComplaints(uid, complaints[i])}
  IN  IF "status" \in DOMAIN patch /\ patch.status \notin complaint_status
        THEN [error |-> "22P02", count |-> 0, table |-> complaints]
      ELSE IF targets = {}
        THEN [error |-> "", count |-> 0, table |-> complaints]
      ELSE LET i == CHOOSE j \in targets : TRUE
               new == ApplyPatch(complaints[i], patch)
           IN  IF UniqueViolation(new.tracking_code, i)
                 THEN [error |-> "23505", count |-> 0, table |-> complaints]
                 ELSE [error |-> "", count |-> 1,
                       table |-> [complaints EXCEPT ![i] = new]]

\* INSERT INTO evidence_files
InsertEvidence(uid, ef) ==
  IF CanInsertEvidence(uid, ef) /\ ef.complaint_id \in {complaints[i].id : i \in Ids}
    THEN Append(evidence_files, ef)
    ELSE evidence_files

\* INSERT INTO public_logs
InsertPublicLog(uid, log) ==
  IF CanInsertPublicLog(uid, log) /\ log.complaint_id \in {complaints[i].id : i \in Ids}
    THEN Append(public_logs, log)
    ELSE public_logs

(***************************************************************************)
(* Requests in flight and page state                                       *)
(***************************************************************************)
\* code is the variable of that name of generate_tracking_code
NoTx == [pc |-> "none", uid |-> Null, new |-> ColumnDefault, code |-> NullCode]

\* what a page or function shows for the request it handled last
NoResp == [op |-> "none", uid |-> Null, input |-> <<>>, error |-> "", count |-> 0,
           row |-> NoRow, toast |-> ""]

Response(op, uid, input, error, count, row, toast) ==
  [op |-> op, uid |-> uid, input |-> input, error |-> error, count |-> count,
   row |-> row, toast |-> toast]

FileA == [name |-> "a.png", content |-> "x"]
FileB == [name |-> "b.png", content |-> "y"]

\* calculateFileHash: the SHA-256 digest of the file's content
calculateFileHash(file) == IF file.content = "x" THEN "h1" ELSE "h2"

\* Array.prototype.join(",")
RECURSIVE join(_)
join(hs) ==
  IF Len(hs) = 0 THEN ""
  ELSE IF Len(hs) = 1 THEN hs[1]
  ELSE hs[1] \o "," \o join(Tail(hs))

\* complaintSchema: a text field is modelled by its length
TitleMin == 10
TitleMax == 200
DescriptionMin == 50
DescriptionMax == 5000
LocationMin == 3

complaint_category ==
  {"bribery", "misconduct", "misuse_of_funds", "negligence", "infrastructure", "other"}

\* the form as first rendered, and a form that passes complaintSchema
EmptyForm == [title |-> 0, description |-> 0, category |-> "", location |-> 0]
ValidForm == [title |-> TitleMin, description |-> DescriptionMin,
              category |-> "bribery", location |-> LocationMin]

\* the schema without the upper limit of the title
complaintSchema_NoTitleMax(formData) ==
  IF formData.title < TitleMin THEN "Title must be at least 10 characters"
  ELSE IF formData.description < DescriptionMin
    THEN "Description must be at least 50 characters"
  ELSE IF formData.description > DescriptionMax
    THEN "Description must be less than 5000 characters"
  ELSE IF formData.category \notin complaint_category THEN "Invalid enum value"
  ELSE IF formData.location < LocationMin THEN "Location is required"
  ELSE ""

\* complaintSchema.parse: the message of the first issue, "" when the form is valid
complaintSchema(formData) ==
  IF formData.title < TitleMin THEN "Title must be at least 10 characters"
  ELSE IF formData.title > TitleMax THEN "Title must be less than 200 characters"
  ELSE IF formData.description < DescriptionMin
    THEN "Description must be at least 50 characters"
  ELSE IF formData.description > DescriptionMax
    THEN "Description must be less than 5000 characters"
  ELSE IF formData.category \notin complaint_category THEN "Invalid enum value"
  ELSE IF formData.location < LocationMin THEN "Location is required"
  ELSE ""

IdleFlow == [pc |-> "idle", session |-> Null, isAnonymous |-> FALSE, user |-> Null,
             formData |-> EmptyForm, requests |-> <<>>,
             files |-> <<>>, complaint |-> NoComplaint, evidenceHashes |-> <<>>,
             toast |-> "", trackingCode |-> NullCode, showTrackingDialog |-> FALSE]

\* the pages that fold the change feed of complaints into a local list
Pages == {"Analytics", "Dashboard", "GovPortal"}

\* the columns of a complaint a page uses
PageColumns == {"id", "status", "user_id"}

\* useState({total: 0, pending: 0, in_review: 0, resolved: 0})
NoStats == [total |-> 0, pending |-> 0, in_review |-> 0, resolved |-> 0]

\* One run of a page's load effect. pc is the statement its asynchronous function waits
\* at; complaints and selectedComplaint are the values of the render the effect ran in,
\* which the channel's callback closes over; next is the position in the feed of the next
\* event of the channel.
NewRun == [pc |-> "getSession", cleaned |-> FALSE, channel |-> "none",
           complaints |-> <<>>, selectedComplaint |-> 0,
           data |-> <<>>, error |-> FALSE, next |-> 0]

\* no page is open; selectedComplaint is the id of the selected complaint, 0 for null;
\* stale tells that a dependency of the load effect has changed since its last run
ClosedPage == [kind |-> "none", mounted |-> FALSE, session |-> Null,
               complaints |-> <<>>, stats |-> NoStats, selectedComplaint |-> 0,
               stale |-> FALSE, runs |-> <<>>]

InFlight == Cardinality({c \in Clients : tx[c].pc # "none"})

(***************************************************************************)
(* Inputs                                                                  *)
(***************************************************************************)
StatusInputs == complaint_status \cup {"bogus"}
SubmitSessions == {Null, "u1"}
ApiInsertCallers == {Null, "u1"}
ApiInsertOwners == {Null, "u1", "u2"}
\* the files picked on the Submit page: the two files in turn, either one first
FileLists ==
  {[i \in 1..n |-> IF i % 2 = 1 THEN FileA ELSE FileB] : n \in 0..MaxFiles}
    \cup {[i \in 1..n |-> IF i % 2 = 1 THEN FileB ELSE FileA] : n \in 0..MaxFiles}

CodePatches == {[tracking_code |-> code] : code \in {NullCode} \cup SuppliedCodes}
AnonymityPatches == {[is_anonymous |-> b] : b \in BOOLEAN}

(***************************************************************************)
(* Initial state                                                           *)
(***************************************************************************)
Init ==
  /\ complaints = <<>>
  /\ evidence_files = <<>>
  /\ public_logs = <<>>
  /\ gov_notes = <<>>
  /\ storage = {}
  /\ auth_users = Users
  /\ tx = [c \in Clients |-> NoTx]
  /\ flow = [c \in Clients |-> IdleFlow]
  /\ resp = NoResp
  /\ page = ClosedPage
  /\ feed = <<>>

(***************************************************************************)
(* Insert into complaints: BEFORE INSERT trigger, then the row insert      *)
(***************************************************************************)
\* handleSubmit without its loop over the files
AfterInsert_NoFileLoop(f, res) ==
  IF res.error # ""
    THEN [f EXCEPT !.pc = "done", !.toast = res.error]
    ELSE [f EXCEPT !.complaint = res.row, !.pc = "update"]

\* handleSubmit after the insert request has returned
AfterInsert(f, res) ==
  IF res.error # ""
    THEN [f EXCEPT !.pc = "done", !.toast = res.error]
    ELSE [f EXCEPT !.complaint = res.row,
                   !.pc = IF Len(f.files) = 0 THEN "update" ELSE "upload"]

CanStartInsert(c) ==
  /\ flow[c].pc \in {"idle", "done"}
  /\ tx[c].pc = "none"
  /\ Len(complaints) + InFlight < MaxComplaints

\* a client of the data API inserts a complaint row of its choosing
ApiInsert(c, uid, payload) ==
  /\ CanStartInsert(c)
  /\ LET new == ApplyDefaults(payload)
     IN  IF new.status \notin complaint_status
           THEN /\ resp' = NoResp
                /\ UNCHANGED <<complaints, tx>>
         ELSE IF NeedsTrackingCode(new)
           THEN /\ tx' = [tx EXCEPT ![c] = [pc |-> "gen", uid |-> uid, new |-> new, code |-> NullCode]]
                /\ resp' = NoResp
                /\ UNCHANGED complaints
         ELSE LET res == InsertComplaint(uid, new)
              IN  /\ complaints' = res.table
                  /\ resp' = NoResp
                  /\ UNCHANGED tx
  /\ UNCHANGED <<page, feed, gov_notes, auth_users, evidence_files, public_logs, storage, flow>>

\* one iteration of the loop of generate_tracking_code, called by set_tracking_code
generate_tracking_code(c) ==
  /\ tx[c].pc = "gen"
  /\ \E r1 \in Md5Draws, r2 \in Md5Draws :
       LET code == TrackingCodeOf(r1, r2)
       IN  IF CodeExists(code)
             THEN tx' = [tx EXCEPT ![c].code = code]
             ELSE tx' = [tx EXCEPT ![c].pc = "ready", ![c].code = code,
                                   ![c].new.tracking_code = code]
  /\ resp' = NoResp
  /\ UNCHANGED <<page, feed, gov_notes, auth_users, complaints, evidence_files, public_logs, storage, flow>>

\* the row insert that follows the trigger: policy check, unique index, commit
CommitInsert(c) ==
  /\ tx[c].pc = "ready"
  /\ LET res == InsertComplaint(tx[c].uid, tx[c].new)
     IN  /\ complaints' = res.table
         /\ resp' = NoResp
         /\ flow' = IF flow[c].pc = "insert"
                      THEN [flow EXCEPT ![c] = AfterInsert(flow[c], res)]
                      ELSE flow
  /\ tx' = [tx EXCEPT ![c] = NoTx]
  /\ UNCHANGED <<page, feed, gov_notes, auth_users, evidence_files, public_logs, storage>>

\* a client of the data API updates a complaint row
ApiUpdate(uid, id, patch) ==
  /\ LET res == UpdateComplaint(uid, id, patch)
     IN  /\ complaints' = res.table
         /\ resp' = NoResp
  /\ UNCHANGED <<page, feed, gov_notes, auth_users, evidence_files, public_logs, storage, tx, flow>>

\* an account is deleted from auth.users: complaints.user_id and gov_notes.official_id
\* are ON DELETE SET NULL
DeleteUser(uid) ==
  /\ uid \in auth_users
  /\ auth_users' = auth_users \ {uid}
  /\ complaints' = [i \in Ids |-> IF complaints[i].user_id = uid
                                    THEN [complaints[i] EXCEPT !.user_id = Null]
                                    ELSE complaints[i]]
  /\ gov_notes' = [k \in 1..Len(gov_notes) |->
                     IF gov_notes[k].official_id = uid
                       THEN [gov_notes[k] EXCEPT !.official_id = Null]
                       ELSE gov_notes[k]]
  /\ resp' = NoResp
  /\ UNCHANGED <<page, feed, evidence_files, public_logs, storage, tx, flow>>

(***************************************************************************)
(* Submit page                                                             *)
(***************************************************************************)
\* handleSubmit up to the insert request
handleSubmit(c, session, isAnonymous, user, files, formData) ==
  /\ CanStartInsert(c)
  /\ session # Null \/ isAnonymous
  /\ user \in {Null, session}
  /\ LET f0 == [IdleFlow EXCEPT !.pc = "insert", !.session = session,
                                !.isAnonymous = isAnonymous, !.user = user,
                                !.files = files, !.formData = formData]
         f1 == [f0 EXCEPT !.requests = <<<<"insert", 0>>>>]
         issue == complaintSchema(formData)
         new == ApplyDefaults([user_id |-> IF isAnonymous THEN Null ELSE user,
                               is_anonymous |-> isAnonymous])
     IN  IF issue # ""
           THEN /\ flow' = [flow EXCEPT ![c] = [f0 EXCEPT !.pc = "done", !.toast = issue]]
                /\ resp' = NoResp
                /\ UNCHANGED <<complaints, tx>>
         ELSE IF NeedsTrackingCode(new)
           THEN /\ tx' = [tx EXCEPT ![c] = [pc |-> "gen", uid |-> session, new |-> new,
                                                code |-> NullCode]]
                /\ flow' = [flow EXCEPT ![c] = f1]
                /\ resp' = NoResp
                /\ UNCHANGED complaints
           ELSE LET res == InsertComplaint(session, new)
                IN  /\ complaints' = res.table
                    /\ flow' = [flow EXCEPT ![c] = AfterInsert(f1, res)]
                    /\ resp' = NoResp
                    /\ UNCHANGED tx
  /\ UNCHANGED <<page, feed, gov_notes, auth_users, evidence_files, public_logs, storage>>

\* the upload step that removes the earlier evidence rows when an upload fails
SubmitUpload_Compensated(c) ==
  /\ flow[c].pc = "upload"
  /\ LET f == flow[c]
         file == f.files[Len(f.evidenceHashes) + 1]
         fileHash == calculateFileHash(file)
         userId == IF f.isAnonymous THEN "anonymous" ELSE f.user
         filePath == <<userId, f.complaint.id, file.name>>
         n == Len(f.evidenceHashes) + 1
         issued == f.requests \o <<<<"hash", n>>, <<"upload", n>>>>
     IN  \E uploaded \in BOOLEAN :
           IF uploaded /\ CanUploadEvidence(f.session)
             THEN /\ storage' = storage \cup {filePath}
                  /\ UNCHANGED evidence_files
                  /\ flow' = [flow EXCEPT ![c].evidenceHashes = Append(f.evidenceHashes, fileHash),
                                          ![c].requests = issued,
                                          ![c].pc = "evidence"]
             ELSE /\ storage' = storage
                  /\ evidence_files' =
                       SelectSeq(evidence_files,
                                 LAMBDA ef : ef.complaint_id # f.complaint.id)
                  /\ flow' = [flow EXCEPT ![c].evidenceHashes = Append(f.evidenceHashes, fileHash),
                                          ![c].requests = issued,
                                          ![c].pc = "done",
                                          ![c].toast = "upload failed"]
  /\ resp' = NoResp
  /\ UNCHANGED <<page, feed, gov_notes, auth_users, complaints, public_logs, tx>>

\* the next file: hash it, push the hash, upload the file
SubmitUpload(c) ==
  /\ flow[c].pc = "upload"
  /\ LET f == flow[c]
         file == f.files[Len(f.evidenceHashes) + 1]
         fileHash == calculateFileHash(file)
         userId == IF f.isAnonymous THEN "anonymous" ELSE f.user
         filePath == <<userId, f.complaint.id, file.name>>
         n == Len(f.evidenceHashes) + 1
         issued == f.requests \o <<<<"hash", n>>, <<"upload", n>>>>
     IN  \E uploaded \in BOOLEAN :
           IF uploaded /\ CanUploadEvidence(f.session)
             THEN /\ storage' = storage \cup {filePath}
                  /\ flow' = [flow EXCEPT ![c].evidenceHashes = Append(f.evidenceHashes, fileHash),
                                          ![c].requests = issued,
                                          ![c].pc = "evidence"]
             ELSE /\ storage' = storage
                  /\ flow' = [flow EXCEPT ![c].evidenceHashes = Append(f.evidenceHashes, fileHash),
                                          ![c].requests = issued,
                                          ![c].pc = "done",
                                          ![c].toast = "upload failed"]
  /\ resp' = NoResp
  /\ UNCHANGED <<page, feed, gov_notes, auth_users, complaints, evidence_files, public_logs, tx>>

\* the evidence_files row of the file just uploaded
SubmitEvidence(c) ==
  /\ flow[c].pc = "evidence"
  /\ LET f == flow[c]
         file == f.files[Len(f.evidenceHashes)]
         ef == [complaint_id |-> f.complaint.id, file_name |-> file.name,
                file_hash |-> f.evidenceHashes[Len(f.evidenceHashes)]]
     IN  /\ evidence_files' = InsertEvidence(f.session, ef)
         /\ flow' = [flow EXCEPT ![c].requests =
                                    Append(f.requests, <<"evidence", Len(f.evidenceHashes)>>),
                                  ![c].pc = IF Len(f.evidenceHashes) < Len(f.files)
                                              THEN "upload" ELSE "update"]
  /\ resp' = NoResp
  /\ UNCHANGED <<page, feed, gov_notes, auth_users, complaints, public_logs, storage, tx>>

\* update complaints set evidence_hashes
SubmitUpdateHashes(c) ==
  /\ flow[c].pc = "update"
  /\ LET f == flow[c]
         res == UpdateComplaint(f.session, f.complaint.id,
                                [evidence_hashes |-> f.evidenceHashes])
     IN  /\ complaints' = res.table
         /\ resp' = NoResp
  /\ flow' = [flow EXCEPT ![c].pc = "log",
                           ![c].requests = Append(flow[c].requests, <<"update", 0>>)]
  /\ UNCHANGED <<page, feed, gov_notes, auth_users, evidence_files, public_logs, storage, tx>>

\* the audit log insert, then the success dialog or toast
SubmitAuditLog(c) ==
  /\ flow[c].pc = "log"
  /\ LET f == flow[c]
         log == [complaint_id |-> f.complaint.id,
                 metadata_hash |-> join(f.evidenceHashes),
                 action |-> "complaint_created"]
     IN  /\ public_logs' = InsertPublicLog(f.session, log)
         /\ flow' = IF f.isAnonymous /\ f.complaint.tracking_code # NullCode
                      THEN [flow EXCEPT ![c].pc = "done",
                                        ![c].requests = Append(f.requests, <<"log", 0>>),
                                        ![c].trackingCode = f.complaint.tracking_code,
                                        ![c].showTrackingDialog = TRUE]
                      ELSE [flow EXCEPT ![c].pc = "done",
                                        ![c].requests = Append(f.requests, <<"log", 0>>),
                                        ![c].toast = "success"]
  /\ resp' = NoResp
  /\ UNCHANGED <<page, feed, gov_notes, auth_users, complaints, evidence_files, storage, tx>>

(***************************************************************************)
(* Verify page and verify-tracking function                                *)
(***************************************************************************)
DigitOf == [i \in 0..9 |-> CASE i = 0 -> "0" [] i = 1 -> "1" [] i = 2 -> "2"
                             [] i = 3 -> "3" [] i = 4 -> "4" [] i = 5 -> "5"
                             [] i = 6 -> "6" [] i = 7 -> "7" [] i = 8 -> "8"
                             [] i = 9 -> "9"]

\* the text of a complaint id, and the ids a text denotes
IdText(id) == <<"#", DigitOf[id]>>
IsUuid(text) == Len(text) = 2 /\ text[1] = "#" /\ text[2] \in Digits

RECURSIVE trim(_)
trim(s) ==
  IF Len(s) = 0 THEN s
  ELSE IF s[1] = " " THEN trim(Tail(s))
  ELSE IF s[Len(s)] = " " THEN trim(SubSeq(s, 1, Len(s) - 1))
  ELSE s

toUpperCase(s) == upper(s)

LowerOf == [ch \in UpperAZ |-> CHOOSE l \in LowerAZ : UpperOf[l] = ch]
toLowerCase(s) == [i \in 1..Len(s) |-> IF s[i] \in UpperAZ THEN LowerOf[s[i]] ELSE s[i]]

\* /^CW-[A-Z0-9]{4}-[A-Z0-9]{4}$/i
IsTrackingCodeInput(s) ==
  LET alnum == UpperAZ \cup LowerAZ \cup Digits
  IN  /\ Len(s) = 12
      /\ s[1] \in {"C", "c"} /\ s[2] \in {"W", "w"} /\ s[3] = "-" /\ s[8] = "-"
      /\ \A i \in {4, 5, 6, 7, 9, 10, 11, 12} : s[i] \in alnum

Project(row, cols) == [col \in cols |-> row[col]]

\* the modelled columns of the select lists
VerifyPageSelect == {"id", "status"}
\* the select list with the owner column
VerifyTrackingSelect_WithOwner == {"id", "status", "tracking_code", "user_id"}

VerifyTrackingSelect == {"id", "status", "tracking_code"}

\* handleVerify's query: [error, rows] under the caller's policies
VerifyPageQuery(uid, complaintId) ==
  LET text == trim(complaintId)
      visible == {i \in Ids : CanSelectComplaint(uid, complaints[i])}
  IN  IF IsTrackingCodeInput(text)
        THEN [error |-> "",
              rows |-> {i \in visible : complaints[i].tracking_code = toUpperCase(text)}]
      ELSE IF ~IsUuid(text)
        THEN [error |-> "22P02", rows |-> {}]
      ELSE [error |-> "", rows |-> {i \in visible : IdText(complaints[i].id) = text}]

\* handleVerify of the Verify page
handleVerify(uid, complaintId) ==
  /\ Len(trim(complaintId)) > 0
  /\ LET q == VerifyPageQuery(uid, complaintId)
     IN  IF q.error # "" \/ q.rows = {}
           THEN resp' = Response("handleVerify", uid, complaintId, q.error, 0, NoRow, "not found")
           ELSE LET i == CHOOSE j \in q.rows : TRUE
                IN  resp' = Response("handleVerify", uid, complaintId, "", 1,
                                     Project(complaints[i], VerifyPageSelect), "verified")
  /\ UNCHANGED <<page, feed, gov_notes, auth_users, complaints, evidence_files, public_logs, storage, tx, flow>>

\* what a visitor may type into the Verify page or send to the function
LookupInputs ==
  LET codes == {complaints[i].tracking_code : i \in Ids} \ {NullCode}
  IN  {IdText(i) : i \in Ids} \cup codes \cup {toLowerCase(code) : code \in codes}
        \cup {<<>>, <<" ">>, <<"x">>, <<" ">> \o IdText(1)}

Reverse(seq) == [k \in 1..Len(seq) |-> seq[Len(seq) + 1 - k]]

\* `data || []` applied to the outcome of a child query, whose data is null on error:
\* the error is logged and the list stays empty
FetchedList_KeepsRows(data, error) == data

FetchedList(data, error) == IF error THEN <<>> ELSE data

\* requests to the function: a CORS preflight, a body that is not JSON, and JSON bodies
VerifyRequests ==
  {[method |-> "OPTIONS", json |-> FALSE, trackingCode |-> <<>>],
   [method |-> "POST", json |-> FALSE, trackingCode |-> <<>>]}
    \cup {[method |-> "POST", json |-> TRUE, trackingCode |-> trackingCode] :
            trackingCode \in LookupInputs}

\* The verify-tracking function, with the service role. error is the HTTP status of a
\* failure, queries the outcome of each query made, in order.
verify_tracking(req) ==
  LET trackingCode == req.trackingCode
      Reply(status, success, message, count, row, queries) ==
        Response("verify-tracking", Null, trackingCode, status, count, row, "")
          @@ [success |-> success, message |-> message, queries |-> queries]
      Made(table, error) == [table |-> table, error |-> error]
  IN
  /\ IF req.method = "OPTIONS"
       THEN resp' = Response("verify-tracking", Null, trackingCode, "", 0, NoRow, "")
                      @@ [queries |-> <<>>]
     ELSE IF ~req.json
       THEN resp' = Reply("500", FALSE, "Unexpected end of JSON input", 0, NoRow, <<>>)
     ELSE IF trackingCode = <<>>
       THEN resp' = Reply("400", FALSE, "Tracking code is required", 0, NoRow, <<>>)
     ELSE LET rows == {i \in Ids : complaints[i].tracking_code = trackingCode}
          IN  \E complaintError \in BOOLEAN :
                IF complaintError
                  THEN resp' = Reply("500", FALSE, "Failed to fetch complaint", 0, NoRow,
                                     <<Made("complaints", TRUE)>>)
                ELSE IF rows = {}
                  THEN resp' = Reply("404", FALSE,
                                     "Complaint not found with this tracking code", 0,
                                     NoRow, <<Made("complaints", FALSE)>>)
                ELSE LET i == CHOOSE j \in rows : TRUE
                         complaint == Project(complaints[i], VerifyTrackingSelect)
                         OfComplaint(child) == child.complaint_id = complaint.id
                         Name(k) == Project(SelectSeq(evidence_files, OfComplaint)[k],
                                            {"file_name"})
                         Text(k) == Project(SelectSeq(gov_notes, OfComplaint)[k],
                                            {"note"})
                         evidenceData ==
                           [k \in 1..Len(SelectSeq(evidence_files, OfComplaint)) |-> Name(k)]
                         notesData ==
                           Reverse([k \in 1..Len(SelectSeq(gov_notes, OfComplaint))
                                      |-> Text(k)])
                     IN  \E evidenceError, notesError \in BOOLEAN :
                           resp' = Reply("", TRUE, "", 1,
                                         complaint
                                           @@ [evidence |-> FetchedList(evidenceData,
                                                                        evidenceError),
                                               notes |-> FetchedList(notesData,
                                                                     notesError)],
                                         <<Made("complaints", FALSE),
                                           Made("evidence_files", evidenceError),
                                           Made("gov_notes", notesError)>>)
  /\ UNCHANGED <<page, feed, gov_notes, auth_users, complaints, evidence_files, public_logs, storage, tx, flow>>

(***************************************************************************)
(* Government portal                                                       *)
(***************************************************************************)
\* handleUpdateStatus: the portal is open to callers without a session; the row of the
\* response is selectedComplaint as the page holds it afterwards
handleUpdateStatus(session, selectedComplaint, newStatus) ==
  /\ selectedComplaint \in Ids
  /\ newStatus # ""
  /\ LET res == UpdateComplaint(session, selectedComplaint, [status |-> newStatus])
         shown == [id |-> selectedComplaint, status |-> complaints[selectedComplaint].status]
     IN  /\ complaints' = res.table
         /\ resp' = IF res.error # ""
                      THEN Response("handleUpdateStatus", session, IdText(selectedComplaint),
                                    res.error, res.count, shown, "Failed to update status")
                      ELSE Response("handleUpdateStatus", session, IdText(selectedComplaint),
                                    res.error, res.count, [shown EXCEPT !.status = newStatus],
                                    "Status updated successfully")
  /\ UNCHANGED <<page, feed, gov_notes, auth_users, evidence_files, public_logs, storage, tx, flow>>

(***************************************************************************)
(* analyze-complaint and generate-response functions                       *)
(***************************************************************************)
\* The message content of a gateway reply is a sequence of pieces of text:
\* "fence_json" is the opening fence of a json code block with its line end,
\* "fence" a line end and the closing fence, "m" a member of a JSON object,
\* "w" a word of prose.
ContentTokens == {"fence_json", "fence", "{", "}", "m", "w"}

\* content.substring(0, 200)
SummaryMax == 200

\* a reply whose message has no content
NoContent == <<Null>>

Contents == UNION {[1..n -> ContentTokens] : n \in 0..MaxContent}

IndicesOf(content, token) == {i \in 1..Len(content) : content[i] = token}

First(S) == CHOOSE i \in S : \A j \in S : i <= j
Last(S) == CHOOSE i \in S : \A j \in S : j <= i

NoMatch == [found |-> FALSE, whole |-> <<>>, group |-> <<>>]

\* content.match of the fenced json block, its inside captured lazily
FencedMatch(content) ==
  LET opens == IndicesOf(content, "fence_json")
  IN  IF opens = {} THEN NoMatch
      ELSE LET i == First(opens)
               closes == {j \in IndicesOf(content, "fence") : j > i}
           IN  IF closes = {} THEN NoMatch
               ELSE [found |-> TRUE, whole |-> SubSeq(content, i, First(closes)),
                     group |-> SubSeq(content, i + 1, First(closes) - 1)]

\* content.match(/\{[\s\S]*\}/)
BraceMatch(content) ==
  LET opens == IndicesOf(content, "{")
  IN  IF opens = {} THEN NoMatch
      ELSE LET i == First(opens)
               closes == {j \in IndicesOf(content, "}") : j > i}
           IN  IF closes = {} THEN NoMatch
               ELSE [found |-> TRUE, whole |-> SubSeq(content, i, Last(closes)),
                     group |-> <<>>]

\* jsonMatch ? (jsonMatch[1] || jsonMatch[0]) : content
JsonStr(content) ==
  LET fenced == FencedMatch(content)
      braced == BraceMatch(content)
  IN  IF fenced.found
        THEN IF fenced.group # <<>> THEN fenced.group ELSE fenced.whole
      ELSE IF braced.found THEN braced.whole
      ELSE content

\* the texts JSON.parse accepts: an object of members
IsJson(text) ==
  /\ Len(text) >= 2
  /\ text[1] = "{" /\ text[Len(text)] = "}"
  /\ \A i \in 2..(Len(text) - 1) : text[i] = "m"

\* JSON.parse of an accepted text
JsonParse(text) == [members |-> Len(text) - 2]

\* the object built when the reply cannot be parsed
FallbackAnalysis(content) ==
  [urgency_score |-> 5, sentiment |-> "neutral", key_issues |-> <<"Analysis pending">>,
   recommended_actions |-> <<"Manual review required">>,
   patterns |-> "Unable to determine patterns", risk_level |-> "medium",
   summary |-> SubSeq(content, 1, IF Len(content) < SummaryMax THEN Len(content)
                                                               ELSE SummaryMax),
   raw_response |-> content]

HttpResponse(status, body) == [status |-> status, body |-> body]

\* the function whose inner catch rethrows
ParseAnalysis_Rethrow(content) ==
  IF content = NoContent
    THEN HttpResponse(500, [error |-> "TypeError"])
  ELSE IF IsJson(JsonStr(content))
    THEN HttpResponse(200, [analysis |-> JsonParse(JsonStr(content))])
  ELSE HttpResponse(500, [error |-> "SyntaxError"])

\* analyze-complaint from the gateway's 2xx reply to its own response
ParseAnalysis(content) ==
  IF content = NoContent
    THEN HttpResponse(500, [error |-> "TypeError"])
  ELSE IF IsJson(JsonStr(content))
    THEN HttpResponse(200, [analysis |-> JsonParse(JsonStr(content))])
  ELSE HttpResponse(200, [analysis |-> FallbackAnalysis(content)])

\* generate-response from the gateway's 2xx reply to its own response
ParseResult(action, content) ==
  IF action = "suggest_status"
    THEN IF content = NoContent
           THEN HttpResponse(200, [suggested_status |-> "in_review", reason |-> content])
         ELSE IF IsJson(JsonStr(content))
           THEN HttpResponse(200, JsonParse(JsonStr(content)))
         ELSE HttpResponse(200, [suggested_status |-> "in_review", reason |-> content])
    ELSE HttpResponse(200, [text |-> content])

\* the branch on a gateway reply that is not ok, without the 429 case
GatewayError_No429(status) ==
  IF status = 402
    THEN HttpResponse(402, [error |-> "Payment required. Please add credits to continue."])
  ELSE HttpResponse(500, [error |-> "AI Gateway error"])

\* if (!response.ok) of both functions
GatewayError(status) ==
  IF status = 429
    THEN HttpResponse(429, [error |-> "Rate limit exceeded. Please try again later."])
  ELSE IF status = 402
    THEN HttpResponse(402, [error |-> "Payment required. Please add credits to continue."])
  ELSE HttpResponse(500, [error |-> "AI Gateway error"])

ResponseOk(status) == status \in 200..299

\* what the gateway may answer
GatewayStatuses == {200, 201, 402, 429, 500}
GatewayReplies == [status : GatewayStatuses, content : Contents \cup {NoContent}]

AiResponse(op, key, action, gateway, res) ==
  [op |-> op, key |-> key, action |-> action, gateway |-> gateway,
   status |-> res.status, body |-> res.body]

\* serve handler of analyze-complaint
analyze_complaint(LOVABLE_API_KEY, gateway) ==
  /\ resp' = AiResponse("analyze-complaint", LOVABLE_API_KEY, "", gateway,
        IF ~LOVABLE_API_KEY
          THEN HttpResponse(500, [error |-> "LOVABLE_API_KEY is not configured"])
        ELSE IF ~ResponseOk(gateway.status) THEN GatewayError(gateway.status)
        ELSE ParseAnalysis(gateway.content))
  /\ UNCHANGED <<page, feed, gov_notes, auth_users, complaints, evidence_files, public_logs, storage, tx, flow>>

\* serve handler of generate-response
generate_response(LOVABLE_API_KEY, action, gateway) ==
  /\ resp' = AiResponse("generate-response", LOVABLE_API_KEY, action, gateway,
        IF ~LOVABLE_API_KEY
          THEN HttpResponse(500, [error |-> "LOVABLE_API_KEY is not configured"])
        ELSE IF ~ResponseOk(gateway.status) THEN GatewayError(gateway.status)
        ELSE ParseResult(action, gateway.content))
  /\ UNCHANGED <<page, feed, gov_notes, auth_users, complaints, evidence_files, public_logs, storage, tx, flow>>

(***************************************************************************)
(* Deletes, and writes to public_logs, through the data API                *)
(***************************************************************************)
\* a DELETE policy for the owner of a complaint
CanDeleteComplaint_Owner(uid, row) ==
  PgRole(uid) = "authenticated" /\ uid = row.user_id

\* complaints has row-level security enabled and no DELETE policy
CanDeleteComplaint(uid, row) == FALSE

\* public_logs has row-level security enabled and neither UPDATE nor DELETE policy
CanUpdatePublicLog(uid, log) == FALSE
CanDeletePublicLog(uid, log) == FALSE

\* DELETE FROM complaints WHERE id = id, with the ON DELETE CASCADE of evidence_files,
\* public_logs and gov_notes
DeleteComplaint(uid, id) ==
  LET targets == {i \in Ids : /\ complaints[i].id = id
                              /\ CanSelectComplaint(uid, complaints[i])
                              /\ CanDeleteComplaint(uid, complaints[i])}
      OtherRow(row) == row.id # id
      OfOther(child) == child.complaint_id # id
  IN  IF targets = {}
        THEN [count |-> 0, complaints |-> complaints, evidence_files |-> evidence_files,
              public_logs |-> public_logs, gov_notes |-> gov_notes]
        ELSE [count |-> 1, complaints |-> SelectSeq(complaints, OtherRow),
              evidence_files |-> SelectSeq(evidence_files, OfOther),
              public_logs |-> SelectSeq(public_logs, OfOther),
              gov_notes |-> SelectSeq(gov_notes, OfOther)]

ApiDeleteComplaint(uid, id) ==
  /\ LET res == DeleteComplaint(uid, id)
     IN  /\ complaints' = res.complaints
         /\ evidence_files' = res.evidence_files
         /\ public_logs' = res.public_logs
         /\ gov_notes' = res.gov_notes
         /\ resp' = Response("ApiDeleteComplaint", uid, IdText(id), "", res.count, NoRow, "")
  /\ UNCHANGED <<page, feed, auth_users, storage, tx, flow>>

\* INSERT INTO public_logs by a client of the data API
ApiInsertPublicLog(uid, log) ==
  /\ public_logs' = InsertPublicLog(uid, log)
  /\ resp' = Response("ApiInsertPublicLog", uid, IdText(log.complaint_id),
                      IF CanInsertPublicLog(uid, log) THEN "" ELSE "42501",
                      Len(InsertPublicLog(uid, log)) - Len(public_logs), NoRow, "")
  /\ UNCHANGED <<page, feed, gov_notes, auth_users, complaints, evidence_files, storage, tx, flow>>

\* UPDATE public_logs SET patch WHERE the k-th entry
ApiUpdatePublicLog(uid, k, patch) ==
  /\ k \in 1..Len(public_logs)
  /\ LET allowed == CanUpdatePublicLog(uid, public_logs[k])
     IN  /\ public_logs' = IF allowed
                             THEN [public_logs EXCEPT ![k] = ApplyPatch(public_logs[k], patch)]
                             ELSE public_logs
         /\ resp' = Response("ApiUpdatePublicLog", uid, IdText(k), "",
                             IF allowed THEN 1 ELSE 0, NoRow, "")
  /\ UNCHANGED <<page, feed, gov_notes, auth_users, complaints, evidence_files, storage, tx, flow>>

\* DELETE FROM public_logs WHERE the k-th entry
ApiDeletePublicLog(uid, k) ==
  /\ k \in 1..Len(public_logs)
  /\ LET allowed == CanDeletePublicLog(uid, public_logs[k])
     IN  /\ public_logs' = IF allowed
                             THEN SubSeq(public_logs, 1, k - 1)
                                    \o SubSeq(public_logs, k + 1, Len(public_logs))
                             ELSE public_logs
         /\ resp' = Response("ApiDeletePublicLog", uid, IdText(k), "",
                             IF allowed THEN 1 ELSE 0, NoRow, "")
  /\ UNCHANGED <<page, feed, gov_notes, auth_users, complaints, evidence_files, storage, tx, flow>>

(***************************************************************************)
(* Official notes                                                          *)
(***************************************************************************)
MaxNotes == 2

\* the insert policy without the role test
GovernmentCanInsertNotes_AnyAuthenticated(uid, note) ==
  PgRole(uid) = "authenticated"

GovernmentCanInsertNotes(uid, note) ==
  PgRole(uid) = "authenticated" /\ Elevated(uid)

\* gov_notes has row-level security enabled and neither UPDATE nor DELETE policy
CanUpdateNote(uid, note) == FALSE
CanDeleteNote(uid, note) == FALSE

\* INSERT INTO gov_notes: policy, then the foreign keys and NOT NULL of note
InsertNote(uid, note) ==
  IF ~GovernmentCanInsertNotes(uid, note)
    THEN [error |-> "42501", table |-> gov_notes]
  ELSE IF \/ note.complaint_id \notin {complaints[i].id : i \in Ids}
          \/ note.official_id # Null /\ note.official_id \notin auth_users
    THEN [error |-> "23503", table |-> gov_notes]
  ELSE [error |-> "", table |-> Append(gov_notes, note)]

\* a client of the data API inserts a note
ApiInsertNote(uid, note) ==
  /\ Len(gov_notes) < MaxNotes
  /\ LET res == InsertNote(uid, note)
     IN  /\ gov_notes' = res.table
         /\ resp' = Response("ApiInsertNote", uid, note.note, res.error,
                             Len(res.table) - Len(gov_notes), NoRow, "")
  /\ UNCHANGED <<page, feed, auth_users, complaints, evidence_files, public_logs, storage, tx, flow>>

\* UPDATE gov_notes SET note WHERE the k-th note
ApiUpdateNote(uid, k, text) ==
  /\ k \in 1..Len(gov_notes)
  /\ LET allowed == CanUpdateNote(uid, gov_notes[k])
     IN  /\ gov_notes' = IF allowed THEN [gov_notes EXCEPT ![k].note = text] ELSE gov_notes
         /\ resp' = Response("ApiUpdateNote", uid, text, "", IF allowed THEN 1 ELSE 0,
                             NoRow, "")
  /\ UNCHANGED <<page, feed, auth_users, complaints, evidence_files, public_logs, storage, tx, flow>>

\* DELETE FROM gov_notes WHERE the k-th note
ApiDeleteNote(uid, k) ==
  /\ k \in 1..Len(gov_notes)
  /\ LET allowed == CanDeleteNote(uid, gov_notes[k])
     IN  /\ gov_notes' = IF allowed
                           THEN SubSeq(gov_notes, 1, k - 1)
                                  \o SubSeq(gov_notes, k + 1, Len(gov_notes))
                           ELSE gov_notes
         /\ resp' = Response("ApiDeleteNote", uid, <<>>, "", IF allowed THEN 1 ELSE 0,
                             NoRow, "")
  /\ UNCHANGED <<page, feed, auth_users, complaints, evidence_files, public_logs, storage, tx, flow>>

\* handleAddNote of the government portal; userId is the id of the session's user
handleAddNote(session, selectedComplaint, newNote) ==
  /\ Len(gov_notes) < MaxNotes
  /\ LET userId == session
     IN  IF selectedComplaint \notin Ids \/ Len(trim(newNote)) = 0 \/ userId = Null
           THEN /\ resp' = Response("handleAddNote", session, newNote, "", 0, NoRow, "")
                /\ UNCHANGED gov_notes
           ELSE LET res == InsertNote(session, [complaint_id |-> complaints[selectedComplaint].id,
                                                official_id |-> userId,
                                                note |-> trim(newNote)])
                IN  /\ gov_notes' = res.table
                    /\ resp' = Response("handleAddNote", session, newNote, res.error,
                                        Len(res.table) - Len(gov_notes), NoRow,
                                        IF res.error # "" THEN "Failed to add note"
                                                          ELSE "Note added successfully")
  /\ UNCHANGED <<page, feed, auth_users, complaints, evidence_files, public_logs, storage, tx, flow>>

(***************************************************************************)
(* The change feed of complaints and the pages that follow it              *)
(***************************************************************************)
MaxEvents == 2
MaxRuns == 2

Count(b) == IF b THEN 1 ELSE 0

\* select * from complaints [where user_id = owner] order by created_at desc
SelectComplaints(uid, owner) ==
  LET Visible(row) == /\ CanSelectComplaint(uid, row)
                      /\ owner = Null \/ row.user_id = owner
      rows == SelectSeq(complaints, Visible)
  IN  Reverse([k \in 1..Len(rows) |-> Project(rows[k], PageColumns)])

\* the counters fetchComplaints of the government portal computes from a list
StatsOf(list) ==
  [total |-> Len(list),
   pending |-> Cardinality({k \in 1..Len(list) : list[k].status = "pending"}),
   in_review |-> Cardinality({k \in 1..Len(list) : list[k].status = "in_review"}),
   resolved |-> Cardinality({k \in 1..Len(list) : list[k].status = "resolved"})]

\* A postgres_changes payload. The table has the default replica identity and
\* row-level security enabled, so old carries the primary key only.
ChangeEvent(eventType, id, new) ==
  [eventType |-> eventType, old |-> [id |-> id], new |-> Project(new, PageColumns)]

\* a column of a payload record as the callback reads it
Field(record, col) == IF col \in DOMAIN record THEN record[col] ELSE "undefined"

\* the filter of a channel: user_id=eq.owner; DELETE events are not filtered
Passes(payload, owner) ==
  \/ owner = Null
  \/ payload.eventType = "DELETE"
  \/ payload.new.user_id = owner

Replaced(list, new) == [k \in 1..Len(list) |-> IF list[k].id = new.id THEN new ELSE list[k]]

Without(list, id) ==
  LET Other(row) == row.id # id
  IN  SelectSeq(list, Other)

\* the callback of the channel of the Analytics page
AnalyticsOnChange(p, run, payload) ==
  IF payload.eventType = "INSERT"
    THEN [p EXCEPT !.complaints = <<payload.new>> \o @]
  ELSE IF payload.eventType = "UPDATE"
    THEN [p EXCEPT !.complaints = Replaced(@, payload.new)]
  ELSE [p EXCEPT !.complaints = Without(@, payload.old.id)]

\* the callback of the channel of the Dashboard; selectedComplaint is the one of the
\* render the effect ran in
DashboardOnChange(p, run, payload) ==
  LET selected == run.selectedComplaint # 0
  IN  IF payload.eventType = "INSERT"
        THEN [p EXCEPT !.complaints = <<payload.new>> \o @]
      ELSE IF payload.eventType = "UPDATE"
        THEN IF selected /\ run.selectedComplaint = payload.new.id
               THEN [p EXCEPT !.complaints = Replaced(@, payload.new),
                              !.selectedComplaint = payload.new.id, !.stale = TRUE]
               ELSE [p EXCEPT !.complaints = Replaced(@, payload.new)]
      ELSE IF selected /\ run.selectedComplaint = payload.old.id
        THEN [p EXCEPT !.complaints = Without(@, payload.old.id),
                       !.selectedComplaint = 0, !.stale = TRUE]
        ELSE [p EXCEPT !.complaints = Without(@, payload.old.id)]

\* the callback of the channel of the government portal; complaints and
\* selectedComplaint are the ones of the render the effect ran in
GovPortalOnChange(p, run, payload) ==
  LET selected == run.selectedComplaint # 0
  IN  IF payload.eventType = "INSERT"
        THEN LET new == payload.new
             IN  [p EXCEPT !.complaints = <<new>> \o @,
                           !.stats = [total |-> @.total + 1,
                                      pending |-> @.pending + Count(new.status = "pending"),
                                      in_review |-> @.in_review + Count(new.status = "in_review"),
                                      resolved |-> @.resolved + Count(new.status = "resolved")],
                           !.stale = TRUE]
      ELSE IF payload.eventType = "UPDATE"
        THEN LET found == {k \in 1..Len(run.complaints) :
                             run.complaints[k].id = payload.old.id}
                 oldStatus == IF found = {} THEN "undefined"
                              ELSE run.complaints[First(found)].status
                 newComplaint == payload.new
                 changed == found # {} /\ oldStatus # newComplaint.status
                 Moved(n, st) == IF changed
                                   THEN n - Count(oldStatus = st)
                                          + Count(newComplaint.status = st)
                                   ELSE n
             IN  [p EXCEPT !.complaints = Replaced(@, newComplaint),
                           !.stats = [total |-> @.total,
                                      pending |-> Moved(@.pending, "pending"),
                                      in_review |-> Moved(@.in_review, "in_review"),
                                      resolved |-> Moved(@.resolved, "resolved")],
                           !.stale = TRUE]
      ELSE LET deletedComplaint == payload.old
               status == Field(deletedComplaint, "status")
           IN  [p EXCEPT !.complaints = Without(@, deletedComplaint.id),
                         !.stats = [total |-> @.total - 1,
                                    pending |-> @.pending - Count(status = "pending"),
                                    in_review |-> @.in_review - Count(status = "in_review"),
                                    resolved |-> @.resolved - Count(status = "resolved")],
                         !.selectedComplaint =
                            IF selected /\ run.selectedComplaint = deletedComplaint.id
                              THEN 0 ELSE @,
                         !.stale = TRUE]

OnChange(p, run, payload) ==
  IF p.kind = "Analytics" THEN AnalyticsOnChange(p, run, payload)
  ELSE IF p.kind = "Dashboard" THEN DashboardOnChange(p, run, payload)
  ELSE GovPortalOnChange(p, run, payload)

\* the cleanup function of an effect run: removeChannel if the variable channel is set
\* (the Analytics page sets it before the effect returns)
Cleanup(run) ==
  IF run.channel = "subscribed"
    THEN [run EXCEPT !.cleaned = TRUE, !.channel = "removed"]
    ELSE [run EXCEPT !.cleaned = TRUE]

\* a run whose function has returned and whose channel is gone plays no further part
Finished(run) == run.cleaned /\ run.pc = "done" /\ run.channel # "subscribed"

Collect(runs) ==
  LET Live(run) == ~Finished(run)
  IN  SelectSeq(runs, Live)

CleanupAll(runs) == Collect([k \in 1..Len(runs) |-> IF runs[k].cleaned THEN runs[k]
                                                     ELSE Cleanup(runs[k])])

\* the effect body: the Analytics page calls fetchComplaints and subscribes at once, the
\* other two pages start an asynchronous function that subscribes at its end
StartRun(p) ==
  IF p.kind = "Analytics"
    THEN [NewRun EXCEPT !.pc = "query", !.channel = "subscribed", !.next = Len(feed) + 1]
    ELSE [NewRun EXCEPT !.complaints = p.complaints,
                        !.selectedComplaint = p.selectedComplaint]

\* the page is opened and its load effect runs for the first time
Mount(kind, session) ==
  /\ page.kind = "none"
  /\ LET p == [ClosedPage EXCEPT !.kind = kind, !.mounted = TRUE, !.session = session]
     IN  page' = [p EXCEPT !.runs = <<StartRun(p)>>]
  /\ resp' = NoResp
  /\ UNCHANGED <<feed, gov_notes, auth_users, complaints, evidence_files, public_logs,
                 storage, tx, flow>>

\* supabase.auth.getSession() resolves; the Dashboard leaves for /auth without a session
GetSession(k) ==
  /\ k \in 1..Len(page.runs)
  /\ page.runs[k].pc = "getSession"
  /\ IF page.kind = "Dashboard" /\ page.session = Null
       THEN page' = [page EXCEPT !.mounted = FALSE, !.stale = FALSE,
                                 !.runs = CleanupAll([@ EXCEPT ![k].pc = "done"])]
       ELSE page' = [page EXCEPT !.runs[k].pc = "query"]
  /\ resp' = NoResp
  /\ UNCHANGED <<feed, gov_notes, auth_users, complaints, evidence_files, public_logs,
                 storage, tx, flow>>

\* the select of the run is executed by the store, or fails
Query(k, error) ==
  /\ k \in 1..Len(page.runs)
  /\ page.runs[k].pc = "query"
  /\ LET owner == IF page.kind = "Dashboard" THEN page.session ELSE Null
         data == IF error THEN <<>> ELSE SelectComplaints(page.session, owner)
     IN  page' = [page EXCEPT !.runs[k].pc = "response", !.runs[k].data = data,
                              !.runs[k].error = error]
  /\ resp' = NoResp
  /\ UNCHANGED <<feed, gov_notes, auth_users, complaints, evidence_files, public_logs,
                 storage, tx, flow>>

\* the result of the select arrives: setComplaints (and setStats), and on the Dashboard
\* the subscription in the same turn; a page that is no longer open ignores set calls
QueryResult(k) ==
  /\ k \in 1..Len(page.runs)
  /\ page.runs[k].pc = "response"
  /\ LET run == page.runs[k]
         shown == IF run.error \/ ~page.mounted THEN page
                  ELSE IF page.kind = "GovPortal"
                    THEN [page EXCEPT !.complaints = run.data, !.stats = StatsOf(run.data),
                                      !.stale = TRUE]
                  ELSE [page EXCEPT !.complaints = run.data]
         after == IF page.kind = "GovPortal" THEN [run EXCEPT !.pc = "subscribe"]
                  ELSE IF page.kind = "Dashboard"
                    THEN [run EXCEPT !.pc = "done", !.channel = "subscribed",
                                     !.next = Len(feed) + 1]
                  ELSE [run EXCEPT !.pc = "done"]
     IN  page' = [shown EXCEPT !.runs = Collect([@ EXCEPT ![k] = after])]
  /\ resp' = NoResp
  /\ UNCHANGED <<feed, gov_notes, auth_users, complaints, evidence_files, public_logs,
                 storage, tx, flow>>

\* checkAccess of the government portal continues after await fetchComplaints()
Subscribe(k) ==
  /\ k \in 1..Len(page.runs)
  /\ page.runs[k].pc = "subscribe"
  /\ page' = [page EXCEPT !.runs[k].pc = "done", !.runs[k].channel = "subscribed",
                          !.runs[k].next = Len(feed) + 1]
  /\ resp' = NoResp
  /\ UNCHANGED <<feed, gov_notes, auth_users, complaints, evidence_files, public_logs,
                 storage, tx, flow>>

\* the next event of the feed reaches a subscribed channel and its callback runs
Receive(k) ==
  /\ k \in 1..Len(page.runs)
  /\ page.runs[k].channel = "subscribed"
  /\ page.runs[k].next <= Len(feed)
  /\ LET run == page.runs[k]
         payload == feed[run.next]
         owner == IF page.kind = "Dashboard" THEN page.session ELSE Null
         shown == IF page.mounted /\ Passes(payload, owner)
                    THEN OnChange(page, run, payload) ELSE page
     IN  page' = [shown EXCEPT !.runs[k].next = run.next + 1]
  /\ resp' = NoResp
  /\ UNCHANGED <<feed, gov_notes, auth_users, complaints, evidence_files, public_logs,
                 storage, tx, flow>>

\* after a render in which a dependency has changed: the cleanup of the previous run,
\* then the effect body again (the effect of the Analytics page has no dependencies)
Rerun ==
  /\ page.mounted /\ page.stale
  /\ page.kind \in {"Dashboard", "GovPortal"}
  /\ Len(CleanupAll(page.runs)) < MaxRuns
  /\ page' = [page EXCEPT !.stale = FALSE,
                          !.runs = Append(CleanupAll(page.runs), StartRun(page))]
  /\ resp' = NoResp
  /\ UNCHANGED <<feed, gov_notes, auth_users, complaints, evidence_files, public_logs,
                 storage, tx, flow>>

\* the visitor leaves the page: the cleanup of the last run
Unmount ==
  /\ page.mounted
  /\ page' = [page EXCEPT !.mounted = FALSE, !.stale = FALSE,
                          !.runs = CleanupAll(page.runs)]
  /\ resp' = NoResp
  /\ UNCHANGED <<feed, gov_notes, auth_users, complaints, evidence_files, public_logs,
                 storage, tx, flow>>

\* handleViewDetails (handleViewComplaint on the Analytics page) for a listed complaint,
\* and onOpenChange of the dialog for id 0: setSelectedComplaint
handleViewDetails(id) ==
  /\ page.mounted
  /\ id # page.selectedComplaint
  /\ id = 0 \/ \E k \in 1..Len(page.complaints) : page.complaints[k].id = id
  /\ page' = [page EXCEPT !.selectedComplaint = id,
                          !.stale = @ \/ page.kind \in {"Dashboard", "GovPortal"}]
  /\ resp' = NoResp
  /\ UNCHANGED <<feed, gov_notes, auth_users, complaints, evidence_files, public_logs,
                 storage, tx, flow>>

\* An id is a position in the table and is never used twice: the model deletes the
\* newest row only and inserts nothing after a delete.
NoDelete == \A n \in 1..Len(feed) : feed[n].eventType # "DELETE"

\* an insert through the data API, published to the feed
InsertPublished(uid, payload) ==
  /\ Len(complaints) < MaxComplaints
  /\ Len(feed) < MaxEvents
  /\ NoDelete
  /\ ~NeedsTrackingCode(ApplyDefaults(payload))
  /\ LET res == InsertComplaint(uid, ApplyDefaults(payload))
     IN  /\ complaints' = res.table
         /\ feed' = IF res.error = ""
                      THEN Append(feed, ChangeEvent("INSERT", res.row.id, res.row))
                      ELSE feed
  /\ resp' = NoResp
  /\ UNCHANGED <<page, gov_notes, auth_users, evidence_files, public_logs, storage, tx,
                 flow>>

\* an update through the data API, published to the feed
UpdatePublished(uid, id, patch) ==
  /\ id \in Ids
  /\ Len(feed) < MaxEvents
  /\ LET res == UpdateComplaint(uid, id, patch)
     IN  /\ complaints' = res.table
         /\ feed' = IF res.count = 1
                      THEN Append(feed, ChangeEvent("UPDATE", id, res.table[id]))
                      ELSE feed
  /\ resp' = NoResp
  /\ UNCHANGED <<page, gov_notes, auth_users, evidence_files, public_logs, storage, tx,
                 flow>>

\* a delete by the service role (no policy lets a caller of the data API delete), with
\* the ON DELETE CASCADE of the three child tables
ServiceDelete(id) ==
  /\ id \in Ids /\ id = Len(complaints)
  /\ Len(feed) < MaxEvents
  /\ LET OfOther(child) == child.complaint_id # id
     IN  /\ complaints' = SubSeq(complaints, 1, id - 1)
         /\ evidence_files' = SelectSeq(evidence_files, OfOther)
         /\ public_logs' = SelectSeq(public_logs, OfOther)
         /\ gov_notes' = SelectSeq(gov_notes, OfOther)
  /\ feed' = Append(feed, ChangeEvent("DELETE", id, NoComplaint))
  /\ resp' = NoResp
  /\ UNCHANGED <<page, auth_users, storage, tx, flow>>

(***************************************************************************)
(* Specifications                                                          *)
(***************************************************************************)
ApiInsertPayloads ==
  [user_id : ApiInsertOwners, is_anonymous : BOOLEAN,
   tracking_code : {NullCode} \cup SuppliedCodes]

\* the complaints table under the data API: identity and tracking codes
NextStore ==
  \/ \E c \in Clients, uid \in ApiInsertCallers, payload \in ApiInsertPayloads :
       ApiInsert(c, uid, payload)
  \/ \E c \in Clients : generate_tracking_code(c)
  \/ \E c \in Clients : CommitInsert(c)
  \/ \E uid \in Callers, id \in Ids, patch \in CodePatches \cup AnonymityPatches :
       ApiUpdate(uid, id, patch)
  \/ DeleteUser("u1")

SpecStore == Init /\ [][NextStore]_vars

\* the rows looked up: anonymous ones and ones owned by u1
LookupSeeds ==
  {<<Null, [is_anonymous |-> TRUE, tracking_code |-> code]>> :
     code \in {NullCode} \cup SuppliedCodes}
    \cup {<<"u1", [user_id |-> "u1", tracking_code |-> code]>> :
            code \in {NullCode} \cup SuppliedCodes}

\* lookups of stored complaints by id and by tracking code
NextLookup ==
  \/ \E seed \in LookupSeeds : ApiInsert("c1", seed[1], seed[2])
  \/ generate_tracking_code("c1")
  \/ CommitInsert("c1")
  \/ \E uid \in Callers, complaintId \in LookupInputs : handleVerify(uid, complaintId)
  \/ \E req \in VerifyRequests : verify_tracking(req)

SpecLookup == Init /\ [][NextLookup]_vars

\* the creation flow of the Submit page, next to a client of the data API that
\* inserts anonymous complaints
NextSubmit ==
  \/ \E session \in SubmitSessions, isAnonymous \in BOOLEAN,
        user \in SubmitSessions, files \in FileLists :
       handleSubmit("c1", session, isAnonymous, user, files, ValidForm)
  \/ ApiInsert("c2", Null, [is_anonymous |-> TRUE])
  \/ \E c \in Clients : generate_tracking_code(c)
  \/ \E c \in Clients : CommitInsert(c)
  \/ SubmitUpload("c1")
  \/ SubmitEvidence("c1")
  \/ SubmitUpdateHashes("c1")
  \/ SubmitAuditLog("c1")

SpecSubmit == Init /\ [][NextSubmit]_vars

StatusSeedPayloads ==
  [user_id : {"u1"}, status : {"resolved", "bogus"}]

\* the status column: creation by the Submit page, status updates by any caller
NextStatus ==
  \/ handleSubmit("c1", "u1", FALSE, "u1", <<>>, ValidForm)
  \/ \E payload \in StatusSeedPayloads : ApiInsert("c2", "u1", payload)
  \/ SubmitUpdateHashes("c1")
  \/ SubmitAuditLog("c1")
  \/ \E id \in Ids, newStatus \in {"verified", "bogus"} :
       ApiUpdate("a1", id, [status |-> newStatus])
  \/ \E id \in Ids : ApiUpdate("u2", id, [status |-> "verified"])
  \/ \E selectedComplaint \in Ids, newStatus \in complaint_status \ {"verified"} :
       handleUpdateStatus("g1", selectedComplaint, newStatus)
  \/ \E session \in {Null, "u1"}, selectedComplaint \in Ids :
       handleUpdateStatus(session, selectedComplaint, "resolved")

SpecStatus == Init /\ [][NextStatus]_vars

\* the forms submitted: each field at and just beyond its limits
FormInputs ==
  {[ValidForm EXCEPT !.title = n] : n \in {TitleMin - 1, TitleMax, TitleMax + 1}}
    \cup {[ValidForm EXCEPT !.description = n] :
             n \in {DescriptionMin - 1, DescriptionMax, DescriptionMax + 1}}
    \cup {[ValidForm EXCEPT !.category = cat] : cat \in {"", "other"}}
    \cup {[ValidForm EXCEPT !.location = n] : n \in {LocationMin - 1, LocationMin}}
    \cup {EmptyForm}

\* the Submit page with valid and invalid forms
NextValidation ==
  \/ \E session \in SubmitSessions, files \in {<<>>, <<FileA>>}, formData \in FormInputs :
       handleSubmit("c1", session, session = Null, session, files, formData)
  \/ generate_tracking_code("c1")
  \/ CommitInsert("c1")
  \/ SubmitUpload("c1")
  \/ SubmitEvidence("c1")
  \/ SubmitUpdateHashes("c1")
  \/ SubmitAuditLog("c1")

SpecValidation == Init /\ [][NextValidation]_vars

\* one request to either function, under every gateway reply
NextAi ==
  /\ resp = NoResp
  /\ \/ \E key \in BOOLEAN, gateway \in GatewayReplies : analyze_complaint(key, gateway)
     \/ \E key \in BOOLEAN, action \in {"draft_note", "suggest_status"},
           gateway \in GatewayReplies :
          generate_response(key, action, gateway)

SpecAi == Init /\ [][NextAi]_vars

\* a database that holds complaints with their audit entries: the rows the creation
\* flow is meant to leave
SeedComplaint(i) ==
  WithId(ApplyDefaults([user_id |-> IF i % 2 = 1 THEN "u1" ELSE "u2"]), i)

SeedLog(i) == [complaint_id |-> i, metadata_hash |-> "", action |-> "complaint_created"]

InitAudit ==
  /\ \E n \in 1..MaxComplaints :
       /\ complaints = [i \in 1..n |-> SeedComplaint(i)]
       /\ public_logs = [i \in 1..n |-> SeedLog(i)]
  /\ evidence_files = <<>>
  /\ gov_notes = <<>>
  /\ storage = {}
  /\ auth_users = Users
  /\ tx = [c \in Clients |-> NoTx]
  /\ flow = [c \in Clients |-> IdleFlow]
  /\ resp = NoResp
  /\ page = ClosedPage
  /\ feed = <<>>

\* every write a client of the data API can attempt on stored audit entries
NextAudit ==
  \/ \E uid \in Callers, id \in Ids : ApiDeleteComplaint(uid, id)
  \/ \E uid \in Callers, k \in 1..Len(public_logs) :
       ApiUpdatePublicLog(uid, k, [metadata_hash |-> "h1"])
  \/ \E uid \in Callers, k \in 1..Len(public_logs) : ApiDeletePublicLog(uid, k)
  \/ \E uid \in Callers, id \in Ids : ApiInsertPublicLog(uid, SeedLog(id))
  \/ \E uid \in {"u1", "u2"} : DeleteUser(uid)
  \/ \E uid \in {"u1", "g1"}, id \in Ids, newStatus \in {"in_review", "resolved"} :
       ApiUpdate(uid, id, [status |-> newStatus])

SpecAudit == InitAudit /\ [][NextAudit]_vars

\* the codes generate_tracking_code can draw
GeneratedCodes == {TrackingCodeOf(r1, r2) : r1 \in Md5Draws, r2 \in Md5Draws}

\* an anonymous row holding a generated code
IssuedComplaint(i, code) ==
  WithId(ApplyDefaults([is_anonymous |-> TRUE, tracking_code |-> code]), i)

\* the trigger of an anonymous insert has just called generate_tracking_code
Issuing == [pc |-> "gen", uid |-> Null, new |-> ApplyDefaults([is_anonymous |-> TRUE]),
            code |-> NullCode]

\* anonymous inserts in flight against a table that holds some or all of the codes
\* that can be drawn
InitIssue ==
  /\ \E taken \in SUBSET GeneratedCodes :
       \E order \in [1..Cardinality(taken) -> taken] :
         /\ \A i, j \in DOMAIN order : i < j => order[i] # order[j]
         /\ complaints = [i \in DOMAIN order |-> IssuedComplaint(i, order[i])]
  /\ evidence_files = <<>>
  /\ public_logs = <<>>
  /\ gov_notes = <<>>
  /\ storage = {}
  /\ auth_users = Users
  /\ tx \in {[c \in Clients |-> IF c \in busy THEN Issuing ELSE NoTx] :
               busy \in SUBSET Clients \ {{}}}
  /\ flow = [c \in Clients |-> IdleFlow]
  /\ resp = NoResp
  /\ page = ClosedPage
  /\ feed = <<>>

NextIssue ==
  \/ \E c \in Clients : generate_tracking_code(c)
  \/ \E c \in Clients : CommitInsert(c)

\* the loop iterates, a free candidate is drawn if one stays available, and the row
\* insert follows the trigger
SpecIssue ==
  /\ InitIssue /\ [][NextIssue]_vars
  /\ \A c \in Clients :
       /\ WF_vars(generate_tracking_code(c))
       /\ SF_vars(generate_tracking_code(c) /\ tx'[c].pc = "ready")
       /\ WF_vars(CommitInsert(c))

\* what is typed into the note field of the portal
NoteInputs == {<<>>, <<" ">>, <<" ", "n">>}

\* official notes under the portal and every write of a client of the data API
NextNotes ==
  \/ \E session \in {Null, "u1", "g1"}, selectedComplaint \in 0..MaxComplaints,
        newNote \in NoteInputs :
       handleAddNote(session, selectedComplaint, newNote)
  \/ \E uid \in {Null, "u2", "a1"}, id \in Ids :
       ApiInsertNote(uid, [complaint_id |-> id, official_id |-> "g1", note |-> <<"n">>])
  \/ \E uid \in Callers, k \in 1..Len(gov_notes) : ApiUpdateNote(uid, k, <<"z">>)
  \/ \E uid \in Callers, k \in 1..Len(gov_notes) : ApiDeleteNote(uid, k)
  \/ \E uid \in Callers, id \in Ids : ApiDeleteComplaint(uid, id)
  \/ \E uid \in {"u1", "g1"} : DeleteUser(uid)

SpecNotes == InitAudit /\ [][NextNotes]_vars

\* one page of any kind, opened at any moment, while complaints are inserted by their
\* owners, updated by an official and deleted by the service role
NextPages ==
  \/ \E kind \in Pages, session \in {Null, "u1"} :
       (kind = "Dashboard" \/ session = Null) /\ Mount(kind, session)
  \/ \E k \in 1..MaxRuns : GetSession(k)
  \/ \E k \in 1..MaxRuns, error \in BOOLEAN : Query(k, error)
  \/ \E k \in 1..MaxRuns : QueryResult(k)
  \/ \E k \in 1..MaxRuns : Subscribe(k)
  \/ \E k \in 1..MaxRuns : Receive(k)
  \/ Rerun
  \/ Unmount
  \/ \E id \in 0..MaxComplaints : handleViewDetails(id)
  \/ \E uid \in {"u1", "u2"} : InsertPublished(uid, [user_id |-> uid])
  \/ \E id \in Ids : UpdatePublished("g1", id, [status |-> "resolved"])
  \/ \E id \in Ids : ServiceDelete(id)

SpecPages == Init /\ [][NextPages]_vars

\* a store that holds complaints of u1 in any of two statuses
InitLoad ==
  /\ \E n \in 0..MaxComplaints :
       \E status \in [1..n -> {"pending", "resolved"}] :
         complaints = [i \in 1..n |->
                         WithId(ApplyDefaults([user_id |-> "u1", status |-> status[i]]), i)]
  /\ evidence_files = <<>>
  /\ public_logs = <<>>
  /\ gov_notes = <<>>
  /\ storage = {}
  /\ auth_users = Users
  /\ tx = [c \in Clients |-> NoTx]
  /\ flow = [c \in Clients |-> IdleFlow]
  /\ resp = NoResp
  /\ page = ClosedPage
  /\ feed = <<>>

\* the government portal is opened and left alone: no change of the store, no click
NextLoad ==
  \/ \E session \in {Null, "g1"} : Mount("GovPortal", session)
  \/ \E k \in 1..MaxRuns : GetSession(k)
  \/ \E k \in 1..MaxRuns, error \in BOOLEAN : Query(k, error)
  \/ \E k \in 1..MaxRuns : QueryResult(k)
  \/ \E k \in 1..MaxRuns : Subscribe(k)
  \/ Rerun

\* every pending promise is settled and every pending render and effect takes place
SpecLoad ==
  /\ InitLoad /\ [][NextLoad]_vars
  /\ WF_vars(\E session \in {Null, "g1"} : Mount("GovPortal", session))
  /\ \A k \in 1..MaxRuns :
       /\ WF_vars(GetSession(k))
       /\ WF_vars(\E error \in BOOLEAN : Query(k, error))
       /\ WF_vars(QueryResult(k))
       /\ WF_vars(Subscribe(k))
  /\ WF_vars(Rerun)

\* anonymous complaints holding generated codes, the first one submitted with files
InitVerify ==
  /\ \E n \in 1..MaxComplaints, files \in FileLists :
       LET code == CHOOSE f \in [1..MaxComplaints -> GeneratedCodes] :
                     \A i, j \in 1..MaxComplaints : f[i] = f[j] => i = j
       IN  /\ complaints = [i \in 1..n |-> IssuedComplaint(i, code[i])]
           /\ evidence_files = [k \in 1..Len(files) |->
                                  [complaint_id |-> 1, file_name |-> files[k].name,
                                   file_hash |-> calculateFileHash(files[k])]]
  /\ public_logs = <<>>
  /\ gov_notes = <<>>
  /\ storage = {}
  /\ auth_users = Users
  /\ tx = [c \in Clients |-> NoTx]
  /\ flow = [c \in Clients |-> IdleFlow]
  /\ resp = NoResp
  /\ page = ClosedPage
  /\ feed = <<>>

\* lookups through verify-tracking while an official annotates the first complaint
NextVerify ==
  \/ \E note \in {<<"n">>, <<"m">>} :
       ApiInsertNote("g1", [complaint_id |-> 1, official_id |-> "g1", note |-> note])
  \/ \E req \in VerifyRequests : verify_tracking(req)

SpecVerify == InitVerify /\ [][NextVerify]_vars

(***************************************************************************)
(* Properties                                                              *)
(***************************************************************************)
\* CW-[A-Z0-9]{4}-[A-Z0-9]{4}
HasCodeFormat(code) ==
  /\ Len(code) = 12
  /\ code[1] = "C" /\ code[2] = "W" /\ code[3] = "-" /\ code[8] = "-"
  /\ \A i \in {4, 5, 6, 7, 9, 10, 11, 12} : code[i] \in UpperAZ \cup Digits

CreationCodeOk(row) ==
  IF row.is_anonymous = TRUE
    THEN HasCodeFormat(row.tracking_code)
    ELSE row.tracking_code = NullCode

\* the Submit page has finished handleSubmit and shows the dialog or the success toast
Submitted(c) ==
  /\ flow[c].pc = "done"
  /\ flow[c].showTrackingDialog \/ flow[c].toast = "success"

LogsOf(id) ==
  {k \in 1..Len(public_logs) : /\ public_logs[k].complaint_id = id
                               /\ public_logs[k].action = "complaint_created"}

EvidenceOf(id) == {k \in 1..Len(evidence_files) : evidence_files[k].complaint_id = id}

C2_ConcurrentInsertsAllSucceed ==
  [][\A c \in Clients :
       (/\ tx[c].pc = "ready" /\ tx'[c].pc = "none"
        /\ CanInsertComplaint(tx[c].uid, tx[c].new))
         => /\ Len(complaints') = Len(complaints) + 1
            /\ \A i, j \in 1..Len(complaints') :
                 (i # j /\ complaints'[i].tracking_code # NullCode)
                   => complaints'[i].tracking_code # complaints'[j].tracking_code]_vars

\* C3: in every state a complaint has a tracking code iff it is anonymous.
C3_TrackingCodeIffAnonymous ==
  \A i \in Ids : (complaints[i].tracking_code # NullCode) <=> (complaints[i].is_anonymous = TRUE)

\* C4: a tracking code, once assigned, is the same in every later state.
C4_TrackingCodeNeverChanges ==
  [][\A i \in Ids :
       complaints[i].tracking_code # NullCode
         => complaints'[i].tracking_code = complaints[i].tracking_code]_vars

C6_EvidenceRoundTrip ==
  \A c \in Clients :
    Submitted(c) =>
      LET f == flow[c]
      IN  /\ complaints[f.complaint.id].evidence_hashes
               = [i \in 1..Len(f.files) |-> calculateFileHash(f.files[i])]
          /\ Cardinality(EvidenceOf(f.complaint.id)) = Len(f.files)

\* C7: when handleSubmit has finished without an error, public_logs holds exactly one
\* "complaint_created" entry of the complaint, and its metadata_hash is the comma-join
\* of the evidence hashes.
C7_OneAuditLogEntry ==
  \A c \in Clients :
    Submitted(c) =>
      LET f == flow[c]
      IN  /\ Cardinality(LogsOf(f.complaint.id)) = 1
          /\ \A k \in LogsOf(f.complaint.id) :
               public_logs[k].metadata_hash = join(f.evidenceHashes)

\* C8: a Verify page lookup by id of a non-anonymous complaint returns no row when the
\* caller is neither the owner nor a government or admin user.
C8_ForeignLookupByIdFails ==
  (/\ resp.op = "handleVerify"
   /\ \E i \in Ids : /\ IdText(complaints[i].id) = trim(resp.input)
                     /\ complaints[i].is_anonymous = FALSE
                     /\ complaints[i].user_id \notin {Null, resp.uid}
   /\ ~Elevated(resp.uid))
    => resp.row = NoRow

C10_StatusUpdateNeedsRole ==
  [][(\E i \in Ids : complaints'[i].status # complaints[i].status)
       => ~ \E uid \in Callers, id \in Ids, newStatus \in StatusInputs :
              /\ ~Elevated(uid)
              /\ \/ ApiUpdate(uid, id, [status |-> newStatus])
                 \/ handleUpdateStatus(uid, id, newStatus)]_vars

C10_Witness ==
  /\ resp.op = "handleUpdateStatus" /\ ~Elevated(resp.uid)
  /\ resp.count = 0 /\ resp.toast = "Status updated successfully"
  /\ \E i \in Ids : IdText(i) = resp.input /\ complaints[i].status = "pending"

\* C11: in every state a complaint's user_id is null iff the complaint is anonymous.
C11_OwnerIffNotAnonymous ==
  \A i \in Ids : (complaints[i].user_id = Null) <=> (complaints[i].is_anonymous = TRUE)

ViolatesConstraint(formData) ==
  \/ formData.title < TitleMin \/ formData.title > TitleMax
  \/ formData.description < DescriptionMin \/ formData.description > DescriptionMax
  \/ formData.category \notin complaint_category
  \/ formData.location < LocationMin

ValidationMessages ==
  {"Title must be at least 10 characters", "Title must be less than 200 characters",
   "Description must be at least 50 characters",
   "Description must be less than 5000 characters",
   "Invalid enum value", "Location is required"}

\* C12: a handleSubmit with a form that violates a constraint of complaintSchema shows
\* a validation message and writes nothing: complaints, evidence_files, public_logs and
\* the storage bucket are as before, and no insert is started.
C12_ValidationBeforeAnyWrite ==
  [][\A c \in Clients :
       (/\ flow'[c] # flow[c]
        /\ flow[c].pc \in {"idle", "done"}
        /\ ViolatesConstraint(flow'[c].formData))
         => /\ UNCHANGED <<complaints, evidence_files, public_logs, storage>>
            /\ tx'[c].pc = "none"
            /\ flow'[c].pc = "done"
            /\ flow'[c].toast \in ValidationMessages]_vars

C12_Witness ==
  /\ flow["c1"].pc = "done"
  /\ flow["c1"].formData.title = TitleMax + 1
  /\ Len(flow["c1"].files) > 0
  /\ flow["c1"].toast = "Title must be less than 200 characters"
  /\ Len(complaints) = 1 /\ evidence_files # <<>>

AnswersRateLimit ==
  /\ resp.status = 429
  /\ resp.body = [error |-> "Rate limit exceeded. Please try again later."]

AnswersPaymentRequired ==
  /\ resp.status = 402
  /\ resp.body = [error |-> "Payment required. Please add credits to continue."]

\* C13: when the gateway answers 429, analyze-complaint and generate-response answer
\* with status 429 and the rate-limit message; when it answers 402, with status 402
\* and the payment-required message; the body holds the error alone, no analysis or
\* result (the functions have their API key: without it the gateway is not called).
C13_GatewayErrorsSurfaced ==
  (resp.op \in {"analyze-complaint", "generate-response"} /\ resp.key) =>
    /\ resp.gateway.status = 429 => AnswersRateLimit
    /\ resp.gateway.status = 402 => AnswersPaymentRequired

C13_Witness ==
  /\ resp.op = "generate-response" /\ resp.key
  /\ resp.gateway.status = 402 /\ AnswersPaymentRequired

\* C14 as stated: whenever the content of a 2xx reply is not JSON, analyze-complaint
\* answers 200 with the fallback analysis.
C14_FallbackWheneverContentIsNotJson ==
  (/\ resp.op = "analyze-complaint" /\ resp.key
   /\ ResponseOk(resp.gateway.status)
   /\ resp.gateway.content # NoContent
   /\ ~IsJson(resp.gateway.content))
    => /\ resp.status = 200
       /\ resp.body = [analysis |-> FallbackAnalysis(resp.gateway.content)]

\* C14: when no JSON can be taken from the content of a 2xx reply (neither the inside
\* of its json code block, nor its span from the first "{" to the last "}", nor the
\* content itself parses), analyze-complaint answers 200 with the fallback analysis:
\* urgency_score 5, sentiment neutral, risk_level medium.
C14_FallbackWhenNoJsonExtracted ==
  (/\ resp.op = "analyze-complaint" /\ resp.key
   /\ ResponseOk(resp.gateway.status)
   /\ resp.gateway.content # NoContent
   /\ ~IsJson(JsonStr(resp.gateway.content)))
    => /\ resp.status = 200
       /\ DOMAIN resp.body = {"analysis"}
       /\ resp.body.analysis.urgency_score = 5
       /\ resp.body.analysis.sentiment = "neutral"
       /\ resp.body.analysis.risk_level = "medium"
       /\ resp.body.analysis.raw_response = resp.gateway.content

C14_Witness ==
  /\ resp.op = "analyze-complaint" /\ resp.key /\ resp.gateway.status = 200
  /\ resp.gateway.content = <<"w", "{", "w", "}">>
  /\ resp.status = 200 /\ resp.body.analysis.risk_level = "medium"

\* C15: in every step the stored audit entries stay as they are and in place; entries
\* are only ever added after them.
C15_AuditLogAppendOnly ==
  [][/\ Len(public_logs') >= Len(public_logs)
     /\ \A k \in 1..Len(public_logs) : public_logs'[k] = public_logs[k]]_vars

C15_Witness ==
  /\ resp.op = "ApiDeleteComplaint" /\ resp.uid = "u1" /\ resp.count = 0
  /\ \E i \in Ids : IdText(complaints[i].id) = resp.input /\ complaints[i].user_id = "u1"
  /\ "u2" \notin auth_users
  /\ Len(public_logs) = Len(complaints)

\* the requests of one creation flow with k files, in the order of handleSubmit
ExpectedRequests(k) ==
  [j \in 1..(3 * k + 3) |->
     IF j = 1 THEN <<"insert", 0>>
     ELSE IF j = 3 * k + 2 THEN <<"update", 0>>
     ELSE IF j = 3 * k + 3 THEN <<"log", 0>>
     ELSE <<CASE (j - 2) % 3 = 0 -> "hash" [] (j - 2) % 3 = 1 -> "upload"
              [] OTHER -> "evidence",
            ((j - 2) \div 3) + 1>>]

\* C16: the requests a creation flow has issued are an initial part of: insert; then per
\* file, in the order of submission, hash, upload, evidence row; then the update of
\* evidence_hashes; then the audit log insert. Nothing follows the insert before it
\* has returned the row, the evidence rows stored for the complaint are those of the
\* first files in order, and a finished flow has issued all of them.
C16_CreationStepsInOrder ==
  \A c \in Clients :
    LET f == flow[c]
        expected == ExpectedRequests(Len(f.files))
        rows == SelectSeq(evidence_files, LAMBDA ef : ef.complaint_id = f.complaint.id)
    IN  /\ Len(f.requests) <= Len(expected)
        /\ f.requests = SubSeq(expected, 1, Len(f.requests))
        /\ Len(f.requests) > 1 => (f.complaint.id # 0 /\ tx[c].pc = "none")
        /\ f.complaint.id # 0 =>
              /\ Len(rows) <= Len(f.files)
              /\ \A k \in 1..Len(rows) :
                   /\ rows[k].file_name = f.files[k].name
                   /\ rows[k].file_hash = calculateFileHash(f.files[k])
        /\ Submitted(c) => f.requests = expected

C16_Witness ==
  /\ Submitted("c1") /\ Len(flow["c1"].files) = 2
  /\ flow["c1"].requests = ExpectedRequests(2)
  /\ Cardinality(EvidenceOf(flow["c1"].complaint.id)) = 2

UploadFailed(c) == flow[c].pc = "done" /\ flow[c].toast = "upload failed"

\* C17: when the upload of the i-th file of a creation flow has failed, the complaint
\* row is stored, the evidence rows of the complaint are those of the i-1 files before
\* it, the update of evidence_hashes and the audit log insert have not been issued, and
\* the page shows the upload error and neither the dialog nor the success toast.
C17_PartialFailureNotCompensated ==
  \A c \in Clients :
    UploadFailed(c) =>
      LET f == flow[c]
          i == Len(f.evidenceHashes)
          rows == SelectSeq(evidence_files, LAMBDA ef : ef.complaint_id = f.complaint.id)
      IN  /\ i \in 1..Len(f.files)
          /\ \E k \in Ids : complaints[k].id = f.complaint.id
          /\ Len(rows) = i - 1
          /\ \A k \in 1..Len(rows) : rows[k].file_name = f.files[k].name
          /\ f.requests[Len(f.requests)] = <<"upload", i>>
          /\ \A k \in 1..Len(f.requests) : f.requests[k][1] \notin {"update", "log"}
          /\ complaints[f.complaint.id].evidence_hashes = <<>>
          /\ LogsOf(f.complaint.id) = {}
          /\ ~f.showTrackingDialog

C17_Witness ==
  /\ UploadFailed("c1")
  /\ Len(flow["c1"].evidenceHashes) = 2
  /\ Cardinality(EvidenceOf(flow["c1"].complaint.id)) = 1

\* C18: every call of generate_tracking_code comes to an end, with a code or with an
\* error: an insert does not stay inside the loop forever.
C18_IssuanceTerminates ==
  \A c \in Clients : (tx[c].pc = "gen") ~> (tx[c].pc # "gen")

\* C19 as stated: every change of a complaint's status moves it to a later stage of
\* pending, in_review, verified, resolved or rejected.
C19_StatusOnlyForward ==
  [][\A i \in Ids :
       complaints'[i].status # complaints[i].status
         => StageOf[complaints'[i].status] > StageOf[complaints[i].status]]_vars

\* C19: a complaint's status changes only through officer action: every step that
\* changes a stored status changes the status of one complaint, to one of the five
\* values, and when it is made through the portal the session holds the government or
\* admin role and the portal reports success; no order of the stages is enforced.
C19_StatusChangesByOfficerAction ==
  [][(\E i \in Ids : complaints'[i].status # complaints[i].status)
       => /\ Len(complaints') = Len(complaints)
          /\ Cardinality({i \in Ids : complaints'[i] # complaints[i]}) = 1
          /\ \A i \in Ids : /\ complaints'[i].status \in complaint_status
                             /\ [complaints'[i] EXCEPT !.status = complaints[i].status]
                                  = complaints[i]
          /\ resp'.op = "handleUpdateStatus"
               => /\ Elevated(resp'.uid)
                  /\ resp'.count = 1
                  /\ resp'.toast = "Status updated successfully"
          /\ resp'.op # "handleUpdateStatus"
               => \E uid \in Users, id \in Ids, newStatus \in complaint_status :
                    /\ Elevated(uid)
                    /\ ApiUpdate(uid, id, [status |-> newStatus])]_vars

C19_Witness ==
  /\ resp.op = "handleUpdateStatus" /\ resp.uid = "g1" /\ resp.count = 1
  /\ flow["c1"].complaint.id # 0
  /\ IdText(flow["c1"].complaint.id) = resp.input
  /\ complaints[flow["c1"].complaint.id].status = "rejected"

\* C20: whatever the status s of a stored complaint and whatever the status t, one
\* update of the status by a government or admin caller is accepted, matches the
\* complaint and leaves it with status t.
C20_AnyStatusFromAnyStatus ==
  \A i \in Ids, t \in complaint_status, uid \in {"g1", "a1"} :
    LET res == UpdateComplaint(uid, complaints[i].id, [status |-> t])
    IN  /\ res.error = "" /\ res.count = 1
        /\ res.table[i].status = t
        /\ \A j \in Ids \ {i} : res.table[j] = complaints[j]

\* the complaint inserted with status resolved is back at pending
C20_Witness ==
  /\ flow["c1"].complaint.id = 1 /\ Len(complaints) = 2
  /\ resp.op = "handleUpdateStatus" /\ resp.uid = "g1" /\ resp.count = 1
  /\ resp.input = IdText(2)
  /\ complaints[2].status = "pending"
  /\ {complaints[i].status : i \in Ids} = {"pending"}

\* C21: the is_anonymous value of a stored complaint is the same in every later state,
\* whatever update a permitted caller makes.
C21_AnonymityNeverChanges ==
  [][\A i \in Ids :
       i \in 1..Len(complaints')
         => complaints'[i].is_anonymous = complaints[i].is_anonymous]_vars

NoteInserts == {"handleAddNote", "ApiInsertNote"}

\* C22: an insert into gov_notes by a caller holding neither the government nor the
\* admin role, a visitor of the portal without a session included, creates no note; a
\* note is created only by an insert of a caller holding one of these roles; and every
\* existing note stays, with its complaint and its text (the deletion of the author's
\* account alone empties official_id).
C22_NotesByOfficialsAppendOnly ==
  [][/\ Len(gov_notes') >= Len(gov_notes)
     /\ \A k \in 1..Len(gov_notes) :
          /\ gov_notes'[k].complaint_id = gov_notes[k].complaint_id
          /\ gov_notes'[k].note = gov_notes[k].note
          /\ gov_notes'[k].official_id \in {gov_notes[k].official_id, Null}
     /\ Len(gov_notes') > Len(gov_notes)
          => resp'.op \in NoteInserts /\ Elevated(resp'.uid)
     /\ (resp'.op \in NoteInserts /\ ~Elevated(resp'.uid))
          => gov_notes' = gov_notes /\ resp'.count = 0]_vars

\* a citizen's note is refused by the portal while an official's note is stored
C22_Witness ==
  /\ resp.op = "handleAddNote" /\ resp.uid = "u1"
  /\ resp.error = "42501" /\ resp.toast = "Failed to add note"
  /\ \E k \in 1..Len(gov_notes) : gov_notes[k].official_id = "g1"

\* C23: in every state, an insert into complaints that is accepted from a caller
\* without a session has is_anonymous = true and user_id null, and one that is accepted
\* from an authenticated caller has that caller as user_id; so no accepted insert names
\* another user.
C23_InsertBoundToCaller ==
  \A uid \in Callers, payload \in ApiInsertPayloads :
    LET new == ApplyDefaults(payload)
    IN  InsertComplaint(uid, new).error = ""
          => /\ uid = Null => (new.is_anonymous = TRUE /\ new.user_id = Null)
             /\ uid # Null => new.user_id = uid

\* an anonymous row and a row owned by u1 are stored, and u1's insert of a row owned by
\* u2 is refused
C23_Witness ==
  /\ \E i \in Ids : complaints[i].user_id = "u1"
  /\ \E i \in Ids : complaints[i].user_id = Null /\ complaints[i].is_anonymous = TRUE
  /\ InsertComplaint("u1", ApplyDefaults([user_id |-> "u2"])).error = "42501"
  /\ InsertComplaint(Null, ApplyDefaults([user_id |-> Null])).error = "42501"

\* the file_hash values of the evidence_files rows of a complaint, in the order stored
StoredHashesOf(id) ==
  LET OfComplaint(ef) == ef.complaint_id = id
      rows == SelectSeq(evidence_files, OfComplaint)
  IN  [k \in 1..Len(rows) |-> rows[k].file_hash]

\* C24: when the Submit page shows the dialog or the success toast, the evidence_hashes
\* of the complaint it created are the file_hash values of the evidence_files rows
\* stored for that complaint, in order, and there is one such row per attached file.
C24_HashesMatchEvidenceRows ==
  \A c \in Clients :
    Submitted(c) =>
      /\ complaints[flow[c].complaint.id].evidence_hashes
           = StoredHashesOf(flow[c].complaint.id)
      /\ Len(StoredHashesOf(flow[c].complaint.id)) = Len(flow[c].files)

\* C25: after handleUpdateStatus, "Status updated successfully" is shown only if the
\* stored status of the selected complaint is the chosen one, and when the update
\* changed no row a failure is reported and the status the page displays for the
\* selected complaint is the one it displayed before.
C25_SuccessOnlyWhenStored ==
  [][resp'.op = "handleUpdateStatus"
       => /\ resp'.toast = "Status updated successfully"
               => complaints'[resp'.row.id].status = resp'.row.status
          /\ resp'.count = 0
               => /\ resp'.toast = "Failed to update status"
                  /\ resp'.row.status = complaints[resp'.row.id].status]_vars

\* C26: in the government portal the counters agree with the local list: total is the
\* number of listed complaints and pending, in_review and resolved are the numbers of
\* listed complaints with that status.
C26_StatsMatchList ==
  page.kind = "GovPortal" => page.stats = StatsOf(page.complaints)

\* the page is open, its last fetch has succeeded and been shown, and every subscribed
\* channel has handed over every event of the feed
AllDelivered ==
  /\ page.mounted /\ page.runs # <<>>
  /\ \A k \in 1..Len(page.runs) :
       /\ page.runs[k].pc = "done" /\ ~page.runs[k].error
       /\ page.runs[k].channel = "subscribed" => page.runs[k].next > Len(feed)

\* the complaints of the store the page is meant to list
ListedInStore ==
  SelectComplaints(page.session, IF page.kind = "Dashboard" THEN page.session ELSE Null)

\* C27: once all events have been delivered, the local list of the page holds each
\* complaint id at most once and holds exactly the complaints of the store (those of the
\* session's user on the Dashboard).
C27_ListMatchesStore ==
  AllDelivered =>
    /\ \A j, k \in 1..Len(page.complaints) :
         page.complaints[j].id = page.complaints[k].id => j = k
    /\ {page.complaints[k] : k \in 1..Len(page.complaints)}
         = {ListedInStore[k] : k \in 1..Len(ListedInStore)}

\* no run of the load effect is pending: no dependency has changed since the last run
\* and every run has finished its fetch and its subscription
Quiescent ==
  /\ page.mounted /\ ~page.stale
  /\ \A k \in 1..Len(page.runs) : page.runs[k].pc = "done"

\* C28: after the government portal has been opened, with no change event and no user
\* action, its load effect eventually stops fetching and subscribing for good.
C28_LoadEffectQuiesces == <>[]Quiescent

\* C29: the channel of an effect run whose cleanup has run is not subscribed, and at
\* most one channel of the page is subscribed.
C29_NoChannelOutlivesItsRun ==
  /\ \A k \in 1..Len(page.runs) :
       page.runs[k].cleaned => page.runs[k].channel # "subscribed"
  /\ Cardinality({k \in 1..Len(page.runs) : page.runs[k].channel = "subscribed"}) <= 1

\* the rows of a child table that belong to complaint id, as verify-tracking selects them
EvidenceNamesOf(id) ==
  LET OfComplaint(ef) == ef.complaint_id = id
      rows == SelectSeq(evidence_files, OfComplaint)
  IN  [k \in 1..Len(rows) |-> [file_name |-> rows[k].file_name]]

NoteTextsOf(id) ==
  LET OfComplaint(n) == n.complaint_id = id
      rows == SelectSeq(gov_notes, OfComplaint)
  IN  [k \in 1..Len(rows) |-> [note |-> rows[Len(rows) + 1 - k].note]]

\* C30: verify-tracking, called with a JSON body, answers 400 with success false and
\* without a query when the tracking code is missing; 500 with success false when the
\* complaint query fails; 404 with success false when no complaint has the code; and
\* otherwise success true with the complaint of that code, its evidence and its notes
\* (newest first), where a child query that fails yields an empty list, not a failure.
C30_VerifyTrackingResponses ==
  [][\A req \in VerifyRequests :
       (verify_tracking(req) /\ req.method = "POST" /\ req.json) =>
         LET r == resp'
             matches == {i \in Ids : complaints[i].tracking_code = req.trackingCode}
         IN  IF req.trackingCode = <<>>
               THEN r.error = "400" /\ ~r.success /\ r.queries = <<>>
             ELSE /\ r.queries # <<>>
                  /\ r.queries[1].table = "complaints"
                  /\ IF r.queries[1].error
                       THEN r.error = "500" /\ ~r.success /\ Len(r.queries) = 1
                     ELSE IF matches = {}
                       THEN r.error = "404" /\ ~r.success /\ Len(r.queries) = 1
                     ELSE /\ r.error = "" /\ r.success
                          /\ Len(r.queries) = 3
                          /\ r.queries[2].table = "evidence_files"
                          /\ r.queries[3].table = "gov_notes"
                          /\ \E i \in matches :
                               /\ r.row.id = complaints[i].id
                               /\ r.row.tracking_code = req.trackingCode
                               /\ r.row.evidence = IF r.queries[2].error THEN <<>>
                                                   ELSE EvidenceNamesOf(complaints[i].id)
                               /\ r.row.notes = IF r.queries[3].error THEN <<>>
                                                ELSE NoteTextsOf(complaints[i].id)]_vars

\* a complaint with evidence and two notes was looked up: the evidence query failed and
\* the answer is a success with no evidence and the notes newest first
C30_Witness ==
  /\ resp.op = "verify-tracking" /\ Len(resp.queries) = 3
  /\ resp.error = "" /\ resp.success
  /\ resp.queries[2].error /\ ~resp.queries[3].error
  /\ resp.row.evidence = <<>>
  /\ EvidenceNamesOf(resp.row.id) # <<>>
  /\ Len(resp.row.notes) = 2
  /\ resp.row.notes = NoteTextsOf(resp.row.id)
  /\ resp.row.notes[1] # resp.row.notes[2]

====
